---- MODULE Spec2Model ----
(***************************************************************************)
(* Model of ab-av1-cuda's encode argument resolver,                        *)
(* Encode::to_ffmpeg_args (src/src/command/args/encode.rs).                *)
(*                                                                         *)
(* Strings are sequences of atoms.  An atom is an indivisible run of       *)
(* characters ("-", "=", ",", " ", "fps=", "svtav1-params", ...).  Every   *)
(* literal the code searches for, strips or replaces is a sequence of      *)
(* whole atoms, and every string of the model is cut so that an            *)
(* occurrence of such a literal starts and ends on atom boundaries, so     *)
(* prefix tests, splits and replacements are computed as the code          *)
(* computes them on characters.                                            *)
(*                                                                         *)
(* Option<T> is a sequence of length at most one: <<>> is None and <<x>>   *)
(* is Some(x).  Result<T, E> is a record with a tag "ok" or "err".         *)
(***************************************************************************)
EXTENDS Integers, Sequences, FiniteSets, TLC

\* ------------------------------------------------------------------ bounds

\* Number of command-line options given on one command line.
MaxOptions == 3

\* ------------------------------------------------------------ option values

None == <<>>

Some(x) == <<x>>

IsSome(o) == Len(o) = 1

Unwrap(o) == o[1]

Ok(v) == [tag |-> "ok", val |-> v]

Err(e) == [tag |-> "err", err |-> e]

\* ------------------------------------------------------------------ strings

RECURSIVE Flatten(_)
\* Concatenation of a sequence of strings.
Flatten(ss) == IF ss = <<>> THEN <<>> ELSE Head(ss) \o Flatten(Tail(ss))

\* str::starts_with
StartsWith(s, p) == Len(s) >= Len(p) /\ SubSeq(s, 1, Len(p)) = p

\* str::ends_with
EndsWith(s, p) == Len(s) >= Len(p) /\ SubSeq(s, Len(s) - Len(p) + 1, Len(s)) = p

\* str::contains, for a pattern that is one atom
Contains(s, a) == \E i \in 1..Len(s) : s[i] = a

\* str::strip_prefix
StripPrefix(s, p) == IF StartsWith(s, p) THEN Some(SubSeq(s, Len(p) + 1, Len(s))) ELSE None

RECURSIVE TrimStartMatches(_, _)
\* str::trim_start_matches, for a one-atom pattern
TrimStartMatches(s, a) ==
    IF s # <<>> /\ Head(s) = a THEN TrimStartMatches(Tail(s), a) ELSE s

RECURSIVE TrimEnd(_)
TrimEnd(s) ==
    IF s # <<>> /\ s[Len(s)] = " " THEN TrimEnd(SubSeq(s, 1, Len(s) - 1)) ELSE s

\* str::trim: leading and trailing whitespace removed
Trim(s) == TrimEnd(TrimStartMatches(s, " "))

\* Index of the first occurrence of atom a in s, 0 if there is none.
Find(s, a) ==
    IF Contains(s, a) THEN CHOOSE i \in 1..Len(s) : s[i] = a /\ \A j \in 1..(i - 1) : s[j] # a
    ELSE 0

\* str::split_once on a one-atom delimiter: None, or Some(<<before, after>>)
SplitOnce(s, a) ==
    LET i == Find(s, a)
    IN  IF i = 0 THEN None
        ELSE Some(<<SubSeq(s, 1, i - 1), SubSeq(s, i + 1, Len(s))>>)

RECURSIVE Split(_, _)
\* str::split on a one-atom delimiter: the sequence of pieces
Split(s, a) ==
    LET i == Find(s, a)
    IN  IF i = 0 THEN <<s>>
        ELSE <<SubSeq(s, 1, i - 1)>> \o Split(SubSeq(s, i + 1, Len(s)), a)

RECURSIVE Join(_, _)
\* [String]::join with separator sep (a string)
Join(ss, sep) ==
    IF ss = <<>> THEN <<>>
    ELSE IF Len(ss) = 1 THEN ss[1]
    ELSE ss[1] \o sep \o Join(Tail(ss), sep)

RECURSIVE Replace(_, _, _)
\* str::replace of every occurrence of the one-atom pattern a by the string r
Replace(s, a, r) ==
    IF s = <<>> THEN <<>>
    ELSE (IF Head(s) = a THEN r ELSE <<Head(s)>>) \o Replace(Tail(s), a, r)

\* The elements of a sequence.
Range(s) == {s[i] : i \in 1..Len(s)}

\* Vec::contains / Iterator::any(== x)
Has(v, x) == \E i \in 1..Len(v) : v[i] = x

\* slice::windows(2).any(w[0] == a && w[1] == b)
HasPair(v, a, b) == \E i \in 1..(Len(v) - 1) : v[i] = a /\ v[i + 1] = b

\* A decimal number as a string of one atom (i32/usize to_string).
NumStr(n) == <<ToString(n)>>

\* ------------------------------------------------------------- value types

\* struct Encoder(Arc<str>): the vcodec name.
Libsvtav1 == <<"libsvtav1">>

\* impl FromStr for Encoder: "svt-av1" is an alias of libsvtav1.
EncoderFromStr(s) == IF s = <<"svt-av1">> THEN Libsvtav1 ELSE s

\* enum KeyInterval { Frames(i32), Duration(Duration) }; n is the frame
\* count or the whole seconds of the duration.
Frames(n) == [kind |-> "Frames", n |-> n]

Duration(secs) == [kind |-> "Duration", n |-> secs]

\* A frame rate is the rational <<numerator, denominator>>, both positive.
\* (secs * fps).round() as i32: f64::round rounds half away from zero.
RoundSecsTimesFps(secs, fps) == (2 * secs * fps[1] + fps[2]) \div (2 * fps[2])

\* A keyint_number that asks for the frame rate before looking at the kind
\* of interval.
KeyintNumber_FpsFirst(ki, fps) ==
    IF fps.tag = "err" THEN Err(fps.err)
    ELSE IF ki.kind = "Frames" THEN Ok(ki.n)
    ELSE Ok(RoundSecsTimesFps(ki.n, fps.val))

\* KeyInterval::keyint_number(&self, fps: Result<f64, ProbeError>)
KeyintNumber(ki, fps) ==
    IF ki.kind = "Frames" THEN Ok(ki.n)
    ELSE IF fps.tag = "err" THEN Err(fps.err)
    ELSE Ok(RoundSecsTimesFps(ki.n, fps.val))

\* crate::ffprobe::parse_frame_rate, on the one rate the vfilters of the
\* model hand to it: "24" is 24.0 (test_try_parse_fps_vfilter).
ParseFrameRate(s) ==
    CASE s = <<"24">> -> Some(<<24, 1>>)

\* The `fps=` pieces of a vfilter, in order: each piece of the ','-split,
\* trimmed, with the "fps=" prefix stripped.
FpsPieces(vfilter) ==
    LET pieces == Split(vfilter, ",")
        stripped == [i \in 1..Len(pieces) |-> StripPrefix(Trim(pieces[i]), <<"fps=">>)]
    IN  SelectSeq(stripped, IsSome)

\* fn try_parse_fps_vfilter(vfilter: &str) -> Option<f64>
TryParseFpsVfilter(vfilter) ==
    LET found == FpsPieces(vfilter)
    IN  IF found = <<>> THEN None
        ELSE LET fps_filter == Trim(Unwrap(found[1]))
             IN  IF fps_filter = <<"ntsc">> THEN Some(<<30000, 1001>>)
                 ELSE IF fps_filter = <<"pal">> THEN Some(<<25, 1>>)
                 ELSE IF fps_filter = <<"film">> THEN Some(<<24, 1>>)
                 ELSE IF fps_filter = <<"ntsc_film">> THEN Some(<<24000, 1001>>)
                 ELSE ParseFrameRate(fps_filter)

\* const KEYINT_DEFAULT_INPUT_MIN: Duration = 60 * 3 seconds
KEYINT_DEFAULT_INPUT_MIN == 180

\* const KEYINT_DEFAULT: Duration = 10 seconds
KEYINT_DEFAULT == 10

\* A keyint that takes the default only for inputs longer than the minimum.
KeyintOf_StrictMin(e, p) ==
    LET filter_fps == IF IsSome(e.vfilter) THEN TryParseFpsVfilter(Unwrap(e.vfilter)) ELSE None
        lift(r) == IF r.tag = "err" THEN r ELSE Ok(Some(r.val))
    IN  IF IsSome(e.keyint) /\ IsSome(filter_fps)
            THEN lift(KeyintNumber(Unwrap(e.keyint), Ok(Unwrap(filter_fps))))
        ELSE IF IsSome(e.keyint)
            THEN lift(KeyintNumber(Unwrap(e.keyint), p.fps))
        ELSE IF p.duration.tag = "ok" /\ IsSome(filter_fps)
                /\ p.duration.val > KEYINT_DEFAULT_INPUT_MIN
            THEN lift(KeyintNumber(Duration(KEYINT_DEFAULT), Ok(Unwrap(filter_fps))))
        ELSE IF p.duration.tag = "ok" /\ p.fps.tag = "ok"
                /\ p.duration.val > KEYINT_DEFAULT_INPUT_MIN
            THEN lift(KeyintNumber(Duration(KEYINT_DEFAULT), Ok(p.fps.val)))
        ELSE Ok(None)

\* Encode::keyint(&self, probe) -> anyhow::Result<Option<i32>>, as a
\* Result of an Option.
KeyintOf(e, p) ==
    LET filter_fps == IF IsSome(e.vfilter) THEN TryParseFpsVfilter(Unwrap(e.vfilter)) ELSE None
        lift(r) == IF r.tag = "err" THEN r ELSE Ok(Some(r.val))
    IN  IF IsSome(e.keyint) /\ IsSome(filter_fps)
            THEN lift(KeyintNumber(Unwrap(e.keyint), Ok(Unwrap(filter_fps))))
        ELSE IF IsSome(e.keyint)
            THEN lift(KeyintNumber(Unwrap(e.keyint), p.fps))
        ELSE IF p.duration.tag = "ok" /\ IsSome(filter_fps)
                /\ p.duration.val >= KEYINT_DEFAULT_INPUT_MIN
            THEN lift(KeyintNumber(Duration(KEYINT_DEFAULT), Ok(Unwrap(filter_fps))))
        ELSE IF p.duration.tag = "ok" /\ p.fps.tag = "ok"
                /\ p.duration.val >= KEYINT_DEFAULT_INPUT_MIN
            THEN lift(KeyintNumber(Duration(KEYINT_DEFAULT), Ok(p.fps.val)))
        ELSE Ok(None)

\* Encoder::default_ffmpeg_args: (flag, value) pairs.
DefaultFfmpegArgs(vcodec) ==
    IF vcodec \in {<<"libaom-av1">>, <<"libvpx-vp9">>}
        THEN << <<(<<"-", "b:v">>), (<<"0">>)>> >>
    ELSE IF vcodec \in {<<"av1", "_qsv">>, <<"hevc", "_qsv">>, <<"h264", "_qsv">>}
        THEN << <<(<<"-", "look_ahead">>), (<<"1">>)>>,
                <<(<<"-", "extbrc">>), (<<"1">>)>>,
                <<(<<"-", "look_ahead_depth">>), (<<"40">>)>> >>
    ELSE <<>>

\* Encoder::default_ffmpeg_input_args: (flag, value) pairs by name suffix.
DefaultFfmpegInputArgs(vcodec) ==
    IF EndsWith(vcodec, <<"_vaapi">>)
        THEN << <<(<<"-", "hwaccel">>), (<<"vaapi">>)>>,
                <<(<<"-", "hwaccel_output_format">>), (<<"vaapi">>)>> >>
    ELSE IF EndsWith(vcodec, <<"_vulkan">>)
        THEN << <<(<<"-", "hwaccel">>), (<<"vulkan">>)>>,
                <<(<<"-", "hwaccel_output_format">>), (<<"vulkan">>)>> >>
    ELSE IF EndsWith(vcodec, <<"_cuvid">>)
        THEN << <<(<<"-", "hwaccel">>), (<<"cuda">>)>>,
                <<(<<"-", "hwaccel_output_format">>), (<<"cuda">>)>> >>
    ELSE <<>>

\* A loop over the defaults that pushes every pair, present or not.
PushDefaults_Always(args, defaults) == args \o Flatten(defaults)

RECURSIVE PushDefaults(_, _)
\* for (name, val) in defaults { if !args.any(== name) { push name; push val } }
PushDefaults(args, defaults) ==
    IF defaults = <<>> THEN args
    ELSE LET name == Head(defaults)[1]
             val == Head(defaults)[2]
         IN  PushDefaults(IF Has(args, name) THEN args ELSE args \o <<name, val>>,
                          Tail(defaults))

\* A reserved list for the input that lets -y through.
InputReservedHint_NoOverwrite(arg) ==
    IF arg \in {<<"-", "i">>, <<"-", "n">>, <<"-", "crf">>} THEN Some(<<>>)
    ELSE IF arg = <<"-", "pix_fmt">> THEN Some(<<" use --pix-format">>)
    ELSE IF arg = <<"-", "preset">> THEN Some(<<" use --preset">>)
    ELSE IF arg \in {<<"-", "vf">>, <<"-", "filter:v">>} THEN Some(<<" use --vfilter">>)
    ELSE None

\* The reserved input flags, and the hint each carries.
InputReservedHint(arg) ==
    IF arg \in {<<"-", "i">>, <<"-", "y">>, <<"-", "n">>, <<"-", "crf">>} THEN Some(<<>>)
    ELSE IF arg = <<"-", "pix_fmt">> THEN Some(<<" use --pix-format">>)
    ELSE IF arg = <<"-", "preset">> THEN Some(<<" use --preset">>)
    ELSE IF arg \in {<<"-", "vf">>, <<"-", "filter:v">>} THEN Some(<<" use --vfilter">>)
    ELSE None

\* input_reserved extended with the audio and video codec flags.
OutputReservedHint(arg) ==
    IF arg \in {<<"-", "c:a">>, <<"-", "codec:a">>, <<"-", "acodec">>}
        THEN Some(<<" use --acodec">>)
    ELSE IF arg \in {<<"-", "c:v">>, <<"-", "c:v:0">>, <<"-", "codec:v">>,
                     <<"-", "codec:v:0">>, <<"-", "vcodec">>}
        THEN Some(<<" use --encoder">>)
    ELSE InputReservedHint(arg)

\* An error value: what failed, the value the message echoes, and the
\* list or hint the message carries after it.
Error(kind, arg, more) == [kind |-> kind, arg |-> arg, more |-> more]

\* fn parse_svt_arg(arg: &str) -> anyhow::Result<Arc<str>>
ParseSvtArg(raw) ==
    LET arg == TrimStartMatches(raw, "-")
        denied == <<"crf", "preset", "keyint", "scd", "input-depth">>
        hits == SelectSeq(denied, LAMBDA d : StartsWith(arg, <<d>>))
    IN  IF hits # <<>> THEN Err(Error("SvtDeny", <<hits[1]>>, <<>>)) ELSE Ok(arg)

\* A parse_enc_arg that looks for -svtav1-params before the '-' is put in
\* front.
ParseEncArg_RawPrefix(raw) ==
    LET arg == IF ~StartsWith(raw, <<"-">>) THEN <<"-">> \o raw ELSE raw
    IN  IF StartsWith(raw, <<"-", "svtav1-params">>)
            THEN Err(Error("EncSvtParams", <<"svtav1-params">>, <<" use --svt">>))
        ELSE Ok(arg)

\* fn parse_enc_arg(arg: &str) -> anyhow::Result<String>
ParseEncArg(raw) ==
    LET arg == IF ~StartsWith(raw, <<"-">>) THEN <<"-">> \o raw ELSE raw
    IN  IF StartsWith(arg, <<"-", "svtav1-params">>)
            THEN Err(Error("EncSvtParams", <<"svtav1-params">>, <<" use --svt">>))
        ELSE Ok(arg)

\* ------------------------------------------------- the external tool (ffmpeg)

\* What `ffmpeg -hide_banner -decoders` prints: lines of whitespace-separated
\* words.  One build lists two CUVID decoders, the other none.
StdoutWithCuvid ==
    << << <<"Decoders:">> >>,
       << <<"V.....">>, <<"h264">>, <<"H.264">> >>,
       << <<"V.....">>, <<"h264", "_cuvid">>, <<"Nvidia">> >>,
       << <<"V.....">>, <<"hevc", "_cuvid">>, <<"Nvidia">> >> >>

StdoutNoCuvid ==
    << << <<"Decoders:">> >>,
       << <<"V.....">>, <<"h264">>, <<"H.264">> >> >>

\* Command::output() of the decoder query: the process could not be
\* started, or its stdout.
DecoderQueryOutcomes == {Err(<<"spawn">>), Ok(StdoutWithCuvid), Ok(StdoutNoCuvid)}

\* What the cropdetect run prints on stderr.
StderrWithCrop ==
    << << <<"[cropdetect]">>, <<"x1:0">>, <<"crop=", "1920:800:0:140">> >>,
       << <<"frame=">>, <<"100">> >> >>

StderrNoCrop == << << <<"frame=">>, <<"100">> >> >>

CropQueryOutcomes == {Err(<<"spawn">>), Ok(StderrWithCrop), Ok(StderrNoCrop)}

\* A line contains the text a (one atom).
LineContains(line, a) == \E i \in 1..Len(line) : Contains(line[i], a)

\* fn get_cuvid_decoders() -> anyhow::Result<Vec<String>>, given what
\* Command::output() returned.
GetCuvidDecoders(out) ==
    IF out.tag = "err" THEN Err(Error("DecoderList", <<>>, <<>>))
    ELSE LET cuvid == SelectSeq(out.val, LAMBDA l : LineContains(l, "_cuvid"))
             named == SelectSeq(cuvid, LAMBDA l : Len(l) >= 2)
         IN  Ok([i \in 1..Len(named) |-> named[i][2]])

\* Encode::detect_cuda_crop(&self) -> anyhow::Result<String>, given what
\* Command::output() returned.
DetectCudaCrop(out) ==
    IF out.tag = "err" THEN Err(Error("CropDetect", <<>>, <<>>))
    ELSE LET lines == SelectSeq(out.val, LAMBDA l : LineContains(l, "crop="))
         IN  IF lines = <<>> THEN Err(Error("NoCrop", <<>>, <<>>))
             ELSE LET last == lines[Len(lines)]
                      words == SelectSeq(last, LAMBDA w : StartsWith(w, <<"crop=">>))
                  IN  IF words = <<>> THEN Err(Error("NoCrop", <<>>, <<>>))
                      ELSE Ok(words[1])

\* ---------------------------------------------------- command-line values

EncoderValues ==
    {<<"libx264">>, <<"libaom-av1">>, <<"librav1e">>,
     <<"av1", "_qsv">>, <<"h264", "_vaapi">>}

VfilterValues ==
    {<<"scale=", "320:-1">>,
     <<"scale=", "320:-1", ",", "fps=", "film">>,
     <<"scale=", "1280:-1", ",", " ", "fps=", "ntsc", ",", " ", "transpose=1">>,
     <<"fps=", " ", "24", ",", "fps=", "ntsc">>}

PixFormatValues == {"yuv420p"}

PresetValues == {<<"7">>}

KeyintValues == {Frames(300), Duration(7)}

SvtRawValues ==
    {<<"film-grain", "=", "30">>, <<"-", "-", "crf", "=", "30">>}

EncRawValues ==
    {<<"g", "=", "300">>,
     <<"x265-params", "=", "lossless", "=", "1">>,
     <<"svtav1-params", "=", "tune", "=", "0">>,
     <<"-", "svtav1-params", "=", "tune", "=", "0">>,
     <<"c:v", "=", "copy">>,
     <<"y">>,
     <<"b:v", "=", "1">>,
     <<"metadata", "=", "-", "n">>}

EncInputRawValues ==
    {<<"-", "re">>, <<"i", "=", "x.mp4">>, <<"hwaccel", "=", "vaapi">>}

CudaDecoderValues == {<<"h264", "_cuvid">>, <<"vp9", "_cuvid">>}

CudaFilterValues ==
    {<<"scale=", "1280:720">>, <<"crop=", "1920:800:0:140">>, <<"autocrop">>}

CudaSurfacesValues == {7, 8, 32, 33}

\* What ffprobe reports of the input: duration in seconds and frame rate,
\* each fallible.
ProbeValues ==
    [duration : {Err(<<"no duration">>), Ok(179), Ok(180), Ok(300)},
     fps : {Err(<<"no fps">>), Ok(<<30, 1>>)}]

\* The Encode struct with clap's defaults.
DefaultEncode ==
    [encoder |-> Libsvtav1,
     vfilter |-> None,
     pix_format |-> None,
     preset |-> None,
     keyint |-> None,
     scd |-> None,
     svt_args |-> <<>>,
     enc_args |-> <<>>,
     enc_input_args |-> <<>>,
     cuda_decoder |-> None,
     cuda_filters |-> <<>>,
     cuda_scaling_method |-> <<"lanczos">>,
     cuda_surfaces |-> 16]

\* ------------------------------------------------------------------- state

VARIABLES
    pc,               \* where the run is: "cli", a step of to_ffmpeg_args, "done"
    nopts,            \* command-line options parsed so far
    enc,              \* the Encode struct (self)
    probe,            \* the Ffprobe passed to to_ffmpeg_args
    ext,              \* external processes run so far, with what each returned
    filters,          \* local `filters`
    preset,           \* local `preset`
    keyint,           \* local `keyint`
    svtav1_params,    \* local `svtav1_params`
    cuda_input_args,  \* local `cuda_input_args`
    cuda_filters,     \* local `cuda_filters`
    args,             \* local `args` (the output arguments)
    pix_fmt,          \* local `pix_fmt`
    vfilter,          \* local `vfilter`
    input_args,       \* local `input_args`
    result            \* what the run returned: none yet, Ok(args) or Err(error)

locals ==
    <<filters, preset, keyint, svtav1_params, cuda_input_args, cuda_filters, args,
      pix_fmt, vfilter, input_args>>

\* The state of a VMAF filter run: clap's parse of the Vmaf options, then
\* Vmaf::ffmpeg_lavfi (src/src/command/args/vmaf.rs).
VARIABLES
    vpc,              \* where the run is: "idle", "cli", a step of ffmpeg_lavfi, "done"
    vmaf,             \* the Vmaf struct (self)
    distorted_res,    \* parameter `distorted_res`
    lavfi_pix_fmt,    \* parameter `pix_fmt`
    ref_vfilter,      \* parameter `ref_vfilter`
    lavfi_args,       \* local `args`
    lavfi,            \* local `lavfi`
    model,            \* local `model`
    vmaf_result       \* what the run returned: none yet, Ok(lavfi) or clap's Err

vmafvars ==
    <<vpc, vmaf, distorted_res, lavfi_pix_fmt, ref_vfilter, lavfi_args, lavfi, model,
      vmaf_result>>

\* The state of the hardware decoder argument builder, to_ffmpeg_args of
\* src/src/command/args.rs, and of a call of the auto_select_decoder of
\* src/src/command/auto_hw_decoder.rs.
VARIABLES
    hpc,              \* where the run is: "idle", a step of to_ffmpeg_args, "done"
    hw,               \* the struct the builder reads (self)
    hw_args,          \* local `args`
    hw_decoder,       \* the decoder auto_select_decoder returned, if it was asked
    hw_vfilter,       \* local `vfilter`
    hw_result,        \* what the builder returned: none yet or Ok(args)
    command_decoder   \* what command::auto_hw_decoder returned: none yet or Ok(..)

hwvars == <<hpc, hw, hw_args, hw_decoder, hw_vfilter, hw_result, command_decoder>>

\* What a run of the encode argument resolver leaves alone.
others == <<vmafvars, hwvars>>

vars == <<pc, nopts, enc, probe, ext, locals, result, others>>

\* No VMAF filter run is under way.
VmafIdle ==
    /\ vpc = "idle"
    /\ vmaf = [vmaf_args |-> <<>>, vmaf_scale |-> [kind |-> "Auto"]]
    /\ distorted_res = None
    /\ lavfi_pix_fmt = None
    /\ ref_vfilter = None
    /\ lavfi_args = <<>>
    /\ lavfi = <<>>
    /\ model = None
    /\ vmaf_result = [tag |-> "none"]

\* No hardware decoder argument run is under way.
HwIdle ==
    /\ hpc = "idle"
    /\ hw = [auto_hw_decoder |-> FALSE, detected_input_codec |-> <<>>,
             detected_crop |-> <<>>, vfilter |-> <<>>, cuda_scaling_method |-> <<>>]
    /\ hw_args = <<>>
    /\ hw_decoder = <<>>
    /\ hw_vfilter = <<>>
    /\ hw_result = [tag |-> "none"]
    /\ command_decoder = [tag |-> "none"]

NoProbe == [duration |-> Err(<<"not probed">>), fps |-> Err(<<"not probed">>)]

NoResult == [tag |-> "none"]

Init ==
    /\ pc = "cli"
    /\ nopts = 0
    /\ enc = DefaultEncode
    /\ probe = NoProbe
    /\ ext = <<>>
    /\ filters = <<>>
    /\ preset = None
    /\ keyint = None
    /\ svtav1_params = <<>>
    /\ cuda_input_args = <<>>
    /\ cuda_filters = <<>>
    /\ args = <<>>
    /\ pix_fmt = None
    /\ vfilter = <<>>
    /\ input_args = <<>>
    /\ result = NoResult
    /\ VmafIdle
    /\ HwIdle

\* ---------------------------------------------------- command-line parsing

\* One more option is read into field f of the struct.
SetField(f, v) ==
    /\ pc = "cli"
    /\ nopts < MaxOptions
    /\ nopts' = nopts + 1
    /\ enc' = [enc EXCEPT ![f] = v]
    /\ UNCHANGED <<others, pc, probe, ext, locals, result>>

\* A value parser refused the option: clap reports the error and exits.
CliError(e) ==
    /\ pc = "cli"
    /\ nopts < MaxOptions
    /\ nopts' = nopts + 1
    /\ pc' = "done"
    /\ result' = Err(e)
    /\ UNCHANGED <<others, enc, probe, ext, locals>>

\* --encoder <e>
OptEncoder ==
    /\ enc.encoder = DefaultEncode.encoder
    /\ \E s \in EncoderValues : SetField("encoder", EncoderFromStr(s))

\* --vfilter <expr>
OptVfilter ==
    /\ enc.vfilter = None
    /\ \E v \in VfilterValues : SetField("vfilter", Some(v))

\* --pix-format <fmt>
OptPixFormat ==
    /\ enc.pix_format = None
    /\ \E f \in PixFormatValues : SetField("pix_format", Some(f))

\* --preset <p>
OptPreset ==
    /\ enc.preset = None
    /\ \E p \in PresetValues : SetField("preset", Some(p))

\* --keyint <frames or duration>
OptKeyint ==
    /\ enc.keyint = None
    /\ \E k \in KeyintValues : SetField("keyint", Some(k))

\* --scd <bool>
OptScd ==
    /\ enc.scd = None
    /\ \E b \in BOOLEAN : SetField("scd", Some(b))

\* --svt <arg>, through parse_svt_arg
OptSvt ==
    \E raw \in SvtRawValues :
        LET r == ParseSvtArg(raw)
        IN  IF r.tag = "ok" THEN SetField("svt_args", Append(enc.svt_args, r.val))
            ELSE CliError(r.err)

\* --enc <arg>, through parse_enc_arg
OptEnc ==
    \E raw \in EncRawValues :
        LET r == ParseEncArg(raw)
        IN  IF r.tag = "ok" THEN SetField("enc_args", Append(enc.enc_args, r.val))
            ELSE CliError(r.err)

\* --enc-input <arg>, through parse_enc_arg
OptEncInput ==
    \E raw \in EncInputRawValues :
        LET r == ParseEncArg(raw)
        IN  IF r.tag = "ok"
                THEN SetField("enc_input_args", Append(enc.enc_input_args, r.val))
            ELSE CliError(r.err)

\* --cuda-decoder <name>
OptCudaDecoder ==
    /\ enc.cuda_decoder = None
    /\ \E d \in CudaDecoderValues : SetField("cuda_decoder", Some(d))

\* --cuda-filters <filter>
OptCudaFilters ==
    /\ pc = "cli"
    /\ \E f \in CudaFilterValues : SetField("cuda_filters", Append(enc.cuda_filters, f))

\* --cuda-surfaces <n>
OptCudaSurfaces ==
    /\ enc.cuda_surfaces = DefaultEncode.cuda_surfaces
    /\ \E n \in CudaSurfacesValues : SetField("cuda_surfaces", n)

\* The input is probed and to_ffmpeg_args(crf, probe) is entered.
Ffprobe ==
    /\ pc = "cli"
    /\ \E p \in ProbeValues : probe' = p
    /\ pc' = "check_decoder"
    /\ UNCHANGED <<others, nopts, enc, ext, locals, result>>

\* ------------------------------------------------ Encode::to_ffmpeg_args

\* The call goes on to its next step.
Goto(step) == pc' = step /\ result' = result

\* The call returns Err(e) (anyhow::bail!, ensure!, `?`).
Fail(e) == pc' = "done" /\ result' = Err(e)

\* let svtav1 = vcodec.as_ref() == "libsvtav1";
IsSvtav1(e) == e.encoder = Libsvtav1

\* The first check of the requested CUDA decoder against the decoder list.
CheckDecoder ==
    /\ pc = "check_decoder"
    /\ IF IsSome(enc.cuda_decoder)
       THEN \E out \in DecoderQueryOutcomes :
                LET available == GetCuvidDecoders(out)
                    decoder == Unwrap(enc.cuda_decoder)
                IN  /\ ext' = Append(ext, [call |-> "decoders", ret |-> available])
                    /\ IF available.tag = "err" THEN Fail(available.err)
                       ELSE IF ~Has(available.val, decoder)
                           THEN Fail(Error("DecoderUnavailable", decoder, available.val))
                       ELSE Goto("autocrop")
       ELSE ext' = ext /\ Goto("autocrop")
    /\ UNCHANGED <<others, nopts, enc, probe, locals>>

\* Auto-crop detection: `filters` is a copy of cuda_filters, with the
\* detected crop pushed when "autocrop" is among them.
AutoCrop ==
    /\ pc = "autocrop"
    /\ IF Has(enc.cuda_filters, <<"autocrop">>)
       THEN \E out \in CropQueryOutcomes :
                LET crop == DetectCudaCrop(out)
                IN  /\ ext' = Append(ext, [call |-> "cropdetect", ret |-> crop])
                    /\ IF crop.tag = "err"
                       THEN Fail(crop.err) /\ filters' = enc.cuda_filters
                       ELSE Goto("svt_gate") /\ filters' = Append(enc.cuda_filters, crop.val)
       ELSE ext' = ext /\ filters' = enc.cuda_filters /\ Goto("svt_gate")
    /\ UNCHANGED <<others, nopts, enc, probe, preset, keyint, svtav1_params, cuda_input_args,
                   cuda_filters, args, pix_fmt, vfilter, input_args>>

\* A gate that lets --svt arguments through for every encoder.
SvtGate_Skip ==
    /\ pc = "svt_gate"
    /\ Goto("validate_cuda")
    /\ UNCHANGED <<others, nopts, enc, probe, ext, locals>>

\* ensure!(svtav1 || self.svt_args.is_empty(), ...)
SvtGate ==
    /\ pc = "svt_gate"
    /\ IF IsSvtav1(enc) \/ enc.svt_args = <<>>
       THEN Goto("validate_cuda")
       ELSE Fail(Error("SvtEncoder", <<>>, <<>>))
    /\ UNCHANGED <<others, nopts, enc, probe, ext, locals>>

\* A surface range that leaves out its lower end.
SurfacesInRange_Above8(n) == n > 8 /\ n <= 32

\* self.cuda_surfaces >= 8 && self.cuda_surfaces <= 32
SurfacesInRange(n) == n >= 8 /\ n <= 32

\* Validate CUDA configuration: the decoder list is queried again, then
\* the surface count is checked.
ValidateCuda ==
    /\ pc = "validate_cuda"
    /\ IF IsSome(enc.cuda_decoder)
       THEN \E out \in DecoderQueryOutcomes :
                LET available_decoders == GetCuvidDecoders(out)
                    decoder == Unwrap(enc.cuda_decoder)
                IN  /\ ext' = Append(ext, [call |-> "decoders", ret |-> available_decoders])
                    /\ IF available_decoders.tag = "err" THEN Fail(available_decoders.err)
                       ELSE IF ~Has(available_decoders.val, decoder)
                           THEN Fail(Error("DecoderUnavailable", decoder,
                                           available_decoders.val))
                       ELSE IF ~SurfacesInRange(enc.cuda_surfaces)
                           THEN Fail(Error("Surfaces", NumStr(enc.cuda_surfaces), <<>>))
                       ELSE Goto("keyint")
       ELSE ext' = ext /\ Goto("keyint")
    /\ UNCHANGED <<others, nopts, enc, probe, locals>>

\* let preset = match &self.preset { ... }
PresetOf(e) ==
    IF IsSome(e.preset) THEN e.preset
    ELSE IF IsSvtav1(e) THEN Some(<<"8">>)
    ELSE None

\* The preset, then let keyint = self.keyint(probe)?;
ResolveKeyint ==
    /\ pc = "keyint"
    /\ preset' = PresetOf(enc)
    /\ LET k == KeyintOf(enc, probe)
       IN  IF k.tag = "err"
           THEN Fail(Error("Probe", k.err, <<>>)) /\ keyint' = keyint
           ELSE Goto("build") /\ keyint' = k.val
    /\ UNCHANGED <<others, nopts, enc, probe, ext, filters, svtav1_params, cuda_input_args,
                   cuda_filters, args, pix_fmt, vfilter, input_args>>

\* An scd flag that follows an explicit --scd in both directions.
ScdFlag_ExplicitWins(scd, self_keyint, resolved_keyint) ==
    IF IsSome(scd) THEN (IF Unwrap(scd) THEN 1 ELSE 0)
    ELSE IF self_keyint = None /\ IsSome(resolved_keyint) THEN 1 ELSE 0

\* match (self.scd, self.keyint, keyint) { (Some(true), ..) | (_, None, Some(_)) => 1, _ => 0 }
ScdFlag(scd, self_keyint, resolved_keyint) ==
    IF scd = Some(TRUE) \/ (self_keyint = None /\ IsSome(resolved_keyint)) THEN 1 ELSE 0

\* format!("scd={scd}")
ScdParam(scd) == <<"scd=", ToString(scd)>>

\* svtav1_params before the --enc args are flattened: the scd flag, then
\* all --svt args (libsvtav1 only).
SvtParamsOf(e, k) ==
    IF IsSvtav1(e) THEN <<ScdParam(ScdFlag(e.scd, e.keyint, k))>> \o e.svt_args ELSE <<>>

\* format!("hwdownload,format=nv12,{},hwupload_cuda", chain)
WrapCuda(chain) ==
    <<"hwdownload", ",", "format=nv12", ",">> \o chain \o <<",", "hwupload_cuda">>

\* The hardware input arguments of a CUDA decoder.
CudaInputArgs(e) ==
    IF IsSome(e.cuda_decoder)
    THEN << <<"-", "hwaccel">>, <<"cuda">>,
            <<"-", "hwaccel_output_format">>, <<"cuda">>,
            <<"-", "extra_hw_frames">>, NumStr(e.cuda_surfaces),
            <<"-", "c:v">>, Unwrap(e.cuda_decoder) >>
    ELSE <<>>

\* The CUDA filter chain: the joined cuda_filters with crop= and scale=
\* rewritten, wrapped where they are converted and wrapped again where the
\* format conversion and memory transfer are added.
CudaFilterChain(e) ==
    IF IsSome(e.cuda_decoder) /\ e.cuda_filters # <<>>
    THEN LET joined == Join(e.cuda_filters, <<",">>)
             crop == Replace(joined, "crop=", <<"hwupload_cuda", ",", "crop=">>)
             scale == Replace(crop, "scale=", <<"scale_cuda=", "format=nv12", ":">>)
             converted == WrapCuda(scale)
         IN  IF converted # <<>> THEN WrapCuda(converted) ELSE converted
    ELSE <<>>

\* The svtav1-params option name the flattening of --enc args folds.
FoldsIntoSvtParams(arg) ==
    LET so == SplitOnce(arg, "=")
    IN  IsSome(so) /\ Unwrap(so)[1] = <<"svtav1-params">>

\* A flattening that splits an --enc arg at every '='.
FlattenEncArg_SplitAll(arg) == Split(arg, "=")

\* One --enc arg flattened: nothing when folded, [opt, val] when it holds
\* an '=', else the arg itself.
FlattenEncArg(arg) ==
    LET so == SplitOnce(arg, "=")
    IN  IF IsSome(so)
        THEN IF Unwrap(so)[1] = <<"svtav1-params">> THEN <<>>
             ELSE <<Unwrap(so)[1], Unwrap(so)[2]>>
        ELSE <<arg>>

\* One --enc-input arg flattened: [opt, val] when it holds an '=', else
\* the arg itself.
FlattenInputArg(arg) ==
    LET so == SplitOnce(arg, "=")
    IN  IF IsSome(so) THEN <<Unwrap(so)[1], Unwrap(so)[2]>> ELSE <<arg>>

\* The flattened user output arguments.
FlatEncArgs(e) == Flatten([i \in 1..Len(e.enc_args) |-> FlattenEncArg(e.enc_args[i])])

\* The flattened user input arguments.
FlatInputArgs(e) ==
    Flatten([i \in 1..Len(e.enc_input_args) |-> FlattenInputArg(e.enc_input_args[i])])

\* args with `-svtav1-params <joined>` pushed when params is not empty.
PushSvtParams(a, params) ==
    IF params # <<>> THEN a \o << <<"-", "svtav1-params">>, Join(params, <<":">>) >> ELSE a

\* args with `-g <keyint>` pushed when a keyint is resolved and no -g is there.
PushKeyint(a, k) ==
    IF IsSome(k) /\ ~Has(a, <<"-", "g">>) THEN a \o << <<"-", "g">>, NumStr(Unwrap(k)) >> ELSE a

\* The --enc args whose option name is svtav1-params: each is pushed whole
\* onto svtav1_params while the args are flattened.
FoldedEncArgs(e) == SelectSeq(e.enc_args, FoldsIntoSvtParams)

\* The output arguments: the flattened --enc args, -svtav1-params, -g,
\* the encoder's defaults.
OutputArgs(e, params, k) ==
    PushDefaults(PushKeyint(PushSvtParams(FlatEncArgs(e), params), k),
                 DefaultFfmpegArgs(e.encoder))

\* A pixel format choice that looks at the CUDA decoder before the encoder.
PixFmtOf_CudaFirst(e) ==
    IF IsSome(e.pix_format) THEN e.pix_format
    ELSE IF IsSome(e.cuda_decoder) THEN Some("nv12")
    ELSE IF e.encoder \in {<<"libsvtav1">>, <<"libaom-av1">>, <<"librav1e">>}
        THEN Some("yuv420p10le")
    ELSE None

\* let pix_fmt = self.pix_format.or_else(|| match vcodec { ... });
PixFmtOf(e) ==
    IF IsSome(e.pix_format) THEN e.pix_format
    ELSE IF e.encoder \in {<<"libsvtav1">>, <<"libaom-av1">>, <<"librav1e">>}
        THEN Some("yuv420p10le")
    ELSE IF IsSome(e.cuda_decoder) THEN Some("nv12")
    ELSE None

\* Merge CUDA filters with existing filters.
MergedVfilter(e, chain) ==
    LET user == IF IsSome(e.vfilter) THEN Unwrap(e.vfilter) ELSE <<>>
    IN  IF chain # <<>>
        THEN IF user # <<>> THEN chain \o <<",">> \o user ELSE chain
        ELSE user

\* Input arguments with the encoder's defaults pushed before the CUDA
\* input arguments are chained.
InputArgs_DefaultsFirst(e, cuda_in) ==
    PushDefaults(FlatInputArgs(e), DefaultFfmpegInputArgs(e.encoder)) \o cuda_in

\* The input arguments: the flattened --enc-input args, the CUDA input
\* arguments, the encoder's input defaults.
InputArgs(e, cuda_in) ==
    PushDefaults(FlatInputArgs(e) \o cuda_in, DefaultFfmpegInputArgs(e.encoder))

\* The argument lists, the pixel format and the merged filter are built.
BuildArgs ==
    /\ pc = "build"
    /\ LET params == SvtParamsOf(enc, keyint) \o FoldedEncArgs(enc)
           cuda_in == CudaInputArgs(enc)
           chain == CudaFilterChain(enc)
       IN  /\ svtav1_params' = params
           /\ cuda_input_args' = cuda_in
           /\ cuda_filters' = chain
           /\ args' = OutputArgs(enc, params, keyint)
           /\ pix_fmt' = PixFmtOf(enc)
           /\ vfilter' = MergedVfilter(enc, chain)
           /\ input_args' = InputArgs(enc, cuda_in)
    /\ Goto("reserved")
    /\ UNCHANGED <<others, nopts, enc, probe, ext, filters, preset, keyint>>

\* The filter the returned FfmpegEncodeArgs carries: self.vfilter.as_deref().
ReturnedVfilter(e, merged) == e.vfilter

\* The first reserved argument of each list, and what the call returns.
CheckReserved ==
    /\ pc = "reserved"
    /\ LET bad_in == SelectSeq(input_args, LAMBDA a : IsSome(InputReservedHint(a)))
           bad_out == SelectSeq(args, LAMBDA a : IsSome(OutputReservedHint(a)))
       IN  /\ pc' = "done"
           /\ result' =
                  IF bad_in # <<>>
                      THEN Err(Error("Reserved", bad_in[1], Unwrap(InputReservedHint(bad_in[1]))))
                  ELSE IF bad_out # <<>>
                      THEN Err(Error("Reserved", bad_out[1],
                                     Unwrap(OutputReservedHint(bad_out[1]))))
                  ELSE Ok([vcodec |-> enc.encoder,
                           pix_fmt |-> pix_fmt,
                           vfilter |-> ReturnedVfilter(enc, vfilter),
                           preset |-> preset,
                           output_args |-> args,
                           input_args |-> input_args,
                           video_only |-> FALSE])
    /\ UNCHANGED <<others, nopts, enc, probe, ext, locals>>

\* ---------------------------------------------------------- specification

Next ==
    \/ OptEncoder
    \/ OptVfilter
    \/ OptPixFormat
    \/ OptPreset
    \/ OptKeyint
    \/ OptScd
    \/ OptSvt
    \/ OptEnc
    \/ OptEncInput
    \/ OptCudaDecoder
    \/ OptCudaFilters
    \/ OptCudaSurfaces
    \/ Ffprobe
    \/ CheckDecoder
    \/ AutoCrop
    \/ SvtGate
    \/ ValidateCuda
    \/ ResolveKeyint
    \/ BuildArgs
    \/ CheckReserved

Spec == Init /\ [][Next]_vars

\* ------------------------------------------------------ terms of the claims

\* to_ffmpeg_args has been entered.
Called == probe # NoProbe

\* to_ffmpeg_args has returned Ok.
Returned == pc = "done" /\ result.tag = "ok"

\* to_ffmpeg_args has returned an error.
Failed == pc = "done" /\ Called /\ result.tag = "err"

\* The error kinds of the steps that run before the --svt gating.
BeforeGateKinds == {"DecoderList", "DecoderUnavailable", "CropDetect", "NoCrop"}

\* The error kinds of the steps that run before the keyint is resolved.
BeforeKeyintKinds == BeforeGateKinds \cup {"SvtEncoder", "Surfaces"}

\* The error kinds of the steps that run before the reserved-flag check.
BeforeReservedKinds == BeforeKeyintKinds \cup {"Probe"}

\* The deny-lists as the claims give them.
InputDenyList ==
    {<<"-", "i">>, <<"-", "y">>, <<"-", "n">>, <<"-", "pix_fmt">>, <<"-", "crf">>,
     <<"-", "preset">>, <<"-", "vf">>, <<"-", "filter:v">>}

OutputDenyList ==
    InputDenyList \cup
    {<<"-", "c:a">>, <<"-", "codec:a">>, <<"-", "acodec">>, <<"-", "c:v">>,
     <<"-", "c:v:0">>, <<"-", "codec:v">>, <<"-", "codec:v:0">>, <<"-", "vcodec">>}

\* The flags for which a dedicated option exists.
HintedFlags == OutputDenyList \ {<<"-", "i">>, <<"-", "y">>, <<"-", "n">>, <<"-", "crf">>}

\* The flattened user arguments that are reserved flags, input ones first.
UserReserved ==
    SelectSeq(FlatInputArgs(enc), LAMBDA a : a \in InputDenyList)
        \o SelectSeq(FlatEncArgs(enc), LAMBDA a : a \in OutputDenyList)

\* The error names token t, with the hint of the dedicated option if any.
NamesReserved(e, t) ==
    /\ e.kind = "Reserved"
    /\ e.arg = t
    /\ (e.more # <<>>) = (t \in HintedFlags)

\* The rate of the first `fps=` token of each vfilter of the model, worked
\* out by hand: None where there is no token.
FilterRate(v) ==
    IF v = <<"scale=", "320:-1", ",", "fps=", "film">> THEN Some(<<24, 1>>)
    ELSE IF v = <<"fps=", " ", "24", ",", "fps=", "ntsc">> THEN Some(<<24, 1>>)
    ELSE IF v = <<"scale=", "1280:-1", ",", " ", "fps=", "ntsc", ",", " ", "transpose=1">>
        THEN Some(<<30000, 1001>>)
    ELSE None

\* The frame rate of the run: the vfilter's, else the probed one, else none.
ResolvableFps ==
    IF IsSome(enc.vfilter) /\ IsSome(FilterRate(Unwrap(enc.vfilter)))
        THEN FilterRate(Unwrap(enc.vfilter))
    ELSE IF probe.fps.tag = "ok" THEN Some(probe.fps.val)
    ELSE None

\* The integer nearest to secs * fps (halves upwards).
Nearest(secs, fps) ==
    CHOOSE n \in 0..(secs * fps[1]) :
        /\ 2 * n * fps[2] - fps[2] <= 2 * secs * fps[1]
        /\ 2 * secs * fps[1] < 2 * n * fps[2] + fps[2]

\* The input is at least 3 minutes long and a frame rate is resolvable.
DefaultKeyintApplies ==
    /\ probe.duration.tag = "ok"
    /\ probe.duration.val >= 180
    /\ IsSome(ResolvableFps)

Flag(name) == <<"-", name>>

\* ------------------------------------------------------------------ claims

\* C1 as stated: whenever to_ffmpeg_args returns Ok no token of input_args
\* is on the input deny-list and no token of output_args is on the output
\* deny-list, and whenever a flattened user argument is on the applicable
\* deny-list the call returns the error that names that token.
C1_ReservedAlwaysNamed ==
    pc = "done" /\ Called =>
        /\ result.tag = "ok" =>
               /\ \A i \in 1..Len(result.val.input_args) :
                      result.val.input_args[i] \notin InputDenyList
               /\ \A i \in 1..Len(result.val.output_args) :
                      result.val.output_args[i] \notin OutputDenyList
        /\ \A i \in 1..Len(UserReserved) :
               result.tag = "err" /\ NamesReserved(result.err, UserReserved[i])

\* C1 as amended: an Ok result holds no reserved token in either list, and
\* a reserved flag among the flattened user arguments always makes the call
\* fail; the error names the first such token (input arguments first), with
\* the hint of its dedicated option if it has one, unless an earlier step
\* has already failed with its own error.
C1_ReservedRejected ==
    pc = "done" /\ Called =>
        /\ result.tag = "ok" =>
               /\ \A i \in 1..Len(result.val.input_args) :
                      result.val.input_args[i] \notin InputDenyList
               /\ \A i \in 1..Len(result.val.output_args) :
                      result.val.output_args[i] \notin OutputDenyList
        /\ UserReserved # <<>> =>
               /\ result.tag = "err"
               /\ \/ NamesReserved(result.err, UserReserved[1])
                  \/ result.err.kind \in BeforeReservedKinds

\* C1's case: a user output argument -c:v was refused with its hint.
C1_Witness ==
    /\ Failed
    /\ result.err.kind = "Reserved"
    /\ result.err.arg = Flag("c:v")
    /\ result.err.more # <<>>

\* C2 as stated: with no explicit keyint the output arguments of an Ok
\* result hold `-g N`, N = round(10 x fps), exactly when the probed
\* duration is known and at least 180 s and a frame rate is resolvable
\* (the vfilter's fps= rate, else the probed one); otherwise they hold no
\* -g at all.
C2_DefaultKeyintOnly ==
    Returned /\ enc.keyint = None =>
        IF DefaultKeyintApplies
        THEN HasPair(result.val.output_args, Flag("g"),
                     NumStr(Nearest(10, Unwrap(ResolvableFps))))
        ELSE ~Has(result.val.output_args, Flag("g"))

\* C2 as amended: the same, for the runs in which the user's flattened
\* output arguments hold no -g token of their own.
C2_DefaultKeyintUnlessUserG ==
    Returned /\ enc.keyint = None /\ ~Has(FlatEncArgs(enc), Flag("g")) =>
        IF DefaultKeyintApplies
        THEN HasPair(result.val.output_args, Flag("g"),
                     NumStr(Nearest(10, Unwrap(ResolvableFps))))
        ELSE ~Has(result.val.output_args, Flag("g"))

\* C2's case: 300 s, probed 30 fps, vfilter fps=film: -g 240.
C2_Witness ==
    /\ Returned
    /\ enc.keyint = None
    /\ probe = [duration |-> Ok(300), fps |-> Ok(<<30, 1>>)]
    /\ enc.vfilter = Some(<<"scale=", "320:-1", ",", "fps=", "film">>)
    /\ HasPair(result.val.output_args, Flag("g"), <<"240">>)

\* The first element of the value of every -svtav1-params of the output
\* arguments is scd=<flag>, and there is such an argument.
ScdSerialized(out, flag) ==
    /\ Has(out, Flag("svtav1-params"))
    /\ \A i \in 1..Len(out) :
           out[i] = Flag("svtav1-params") =>
               /\ i < Len(out)
               /\ Split(out[i + 1], ":")[1] = <<"scd=", flag>>

C4_ExplicitScdWins ==
    Returned /\ enc.encoder = <<"libsvtav1">> /\ IsSome(enc.scd) =>
        ScdSerialized(result.val.output_args, IF Unwrap(enc.scd) THEN "1" ELSE "0")

OptionName(arg) ==
    LET so == SplitOnce(arg, "=")
        opt == IF IsSome(so) THEN Unwrap(so)[1] ELSE arg
    IN  IF StartsWith(opt, <<"-">>) THEN Tail(opt) ELSE opt

\* C7: an --enc argument whose option name is svtav1-params is never
\* taken into the configuration: the parser ends the run with the error
\* that points to --svt.  So the -svtav1-params of an Ok result is built
\* from the scd flag and the --svt arguments alone.
C7_EncSvtParamsRejected ==
    /\ \A i \in 1..Len(enc.enc_args) : OptionName(enc.enc_args[i]) # <<"svtav1-params">>
    /\ pc = "done" /\ result.tag = "err" /\ result.err.kind = "EncSvtParams" =>
           ~Called /\ result.err.more = <<" use --svt">>
    /\ Returned =>
           /\ ~Has(FlatEncArgs(enc), Flag("svtav1-params"))
           /\ \A i \in 1..(Len(result.val.output_args) - 1) :
                  result.val.output_args[i] = Flag("svtav1-params") =>
                      \E flag \in {"0", "1"} :
                          result.val.output_args[i + 1]
                              = Join(<< <<"scd=", flag>> >> \o enc.svt_args, <<":">>)

\* C7's case: an --enc svtav1-params=... was refused by the parser after
\* another --enc argument had been taken.
C7_Witness ==
    /\ pc = "done"
    /\ result.tag = "err"
    /\ result.err.kind = "EncSvtParams"
    /\ enc.enc_args # <<>>

\* C8 as stated: the filter of an Ok result is the CUDA chain, then ',' and
\* the user's vfilter if there is one, when a CUDA chain was produced, and
\* otherwise the user's vfilter; with a CUDA decoder and CUDA filters it
\* contains hwupload_cuda.
C8_FilterCarriesCudaChain ==
    Returned =>
        /\ result.val.vfilter =
               IF cuda_filters = <<>> THEN enc.vfilter
               ELSE IF IsSome(enc.vfilter)
                   THEN Some(cuda_filters \o <<",">> \o Unwrap(enc.vfilter))
               ELSE Some(cuda_filters)
        /\ IsSome(enc.cuda_decoder) /\ enc.cuda_filters # <<>> =>
               /\ IsSome(result.val.vfilter)
               /\ Contains(Unwrap(result.val.vfilter), "hwupload_cuda")

\* The decoder lists the external tool reported, in order.
DecoderQueries == SelectSeq(ext, LAMBDA x : x.call = "decoders")

\* Every decoder query made succeeded and listed decoder d.
AlwaysListed(d) ==
    \A i \in 1..Len(DecoderQueries) :
        DecoderQueries[i].ret.tag = "ok" /\ Has(DecoderQueries[i].ret.val, d)

\* The parts of C9 that hold as stated: a failed decoder query is passed
\* on; a list without the requested decoder gives the error that names the
\* decoder and the list; with every list naming the decoder and the
\* surfaces in range none of the three errors occurs.
C9Common ==
    LET d == Unwrap(enc.cuda_decoder)
    IN  /\ \A i \in 1..Len(DecoderQueries) :
               LET r == DecoderQueries[i].ret
               IN  /\ r.tag = "err" => result = r
                   /\ r.tag = "ok" /\ ~Has(r.val, d) =>
                          result = Err(Error("DecoderUnavailable", d, r.val))
        /\ AlwaysListed(d) /\ enc.cuda_surfaces \in 8..32 /\ result.tag = "err" =>
               result.err.kind \notin {"DecoderList", "DecoderUnavailable", "Surfaces"}

C10_PixelFormatPriority ==
    Returned =>
        result.val.pix_fmt =
            IF enc.pix_format # None THEN enc.pix_format
            ELSE IF enc.encoder \in {<<"libsvtav1">>, <<"libaom-av1">>, <<"librav1e">>}
                THEN Some("yuv420p10le")
            ELSE IF enc.cuda_decoder # None THEN Some("nv12")
            ELSE None

\* C10's case: librav1e with an active CUDA decoder still gets yuv420p10le.
C10_Witness ==
    /\ Returned
    /\ enc.encoder = <<"librav1e">>
    /\ enc.pix_format = None
    /\ enc.cuda_decoder # None
    /\ result.val.pix_fmt = Some("yuv420p10le")

\* ======================================================== the VMAF filter

\* Number of --vmaf arguments given on one command line.
MaxVmafArgs == 2

\* ------------------------------------------------------------- u32 and i32

\* A u32 is held as two 16-bit halves, value = hi * 65536 + lo.
U32(n) == [hi |-> n \div 65536, lo |-> n % 65536]

Digits == <<"0", "1", "2", "3", "4", "5", "6", "7", "8", "9">>

DigitVal(c) == (CHOOSE i \in 1..10 : Digits[i] = c) - 1

RECURSIVE ParseDigits(_, _)
\* The digits of s read onto the u32 acc: None on a character that is no
\* digit and on a value that does not fit 32 bits.
ParseDigits(s, acc) ==
    IF s = <<>> THEN Some(acc)
    ELSE IF ~Has(Digits, Head(s)) THEN None
    ELSE LET lo == acc.lo * 10 + DigitVal(Head(s))
             hi == acc.hi * 10 + lo \div 65536
         IN  IF hi >= 65536 THEN None
             ELSE ParseDigits(Tail(s), [hi |-> hi, lo |-> lo % 65536])

\* str::parse::<u32>, on strings without a sign
ParseU32(s) == IF s = <<>> THEN None ELSE ParseDigits(s, U32(0))

\* `u32 as i32`: the same 32 bits read as two's complement.
AsI32(u) ==
    IF u.hi < 32768 THEN u.hi * 65536 + u.lo ELSE (u.hi - 65536) * 65536 + u.lo

\* The product n * u of a dimension n < 2^15 and a u32, as <<high, low>>
\* with low < 65536.
Wide(n, u) == LET p == n * u.lo IN <<n * u.hi + p \div 65536, p % 65536>>

WideGt(a, b) == a[1] > b[1] \/ (a[1] = b[1] /\ a[2] > b[2])

\* fn minimally_scale((from_w, from_h), (target_w, target_h)) -> (i32, i32)
\* h_factor > w_factor compares from_h / target_h with from_w / target_w in
\* f64.  With from_* below 2^15 and positive targets two different
\* quotients differ by more than the f64 rounding error, so the comparison
\* is that of from_h * target_w with from_w * target_h.
MinimallyScale(from, target) ==
    IF WideGt(Wide(from[2], target[1]), Wide(from[1], target[2]))
        THEN <<-1, AsI32(target[2])>>
    ELSE <<AsI32(target[1]), -1>>

\* --------------------------------------------------------- VmafScale, model

VmafScaleNone == [kind |-> "None"]

VmafScaleAuto == [kind |-> "Auto"]

VmafScaleCustom(width, height) == [kind |-> "Custom", width |-> width, height |-> height]

\* fn parse_vmaf_arg(arg: &str) -> anyhow::Result<Arc<str>>
ParseVmafArg(arg) == Ok(arg)

\* fn parse_vmaf_scale(vs: &str) -> anyhow::Result<VmafScale>
ParseVmafScale(vs) ==
    IF vs = <<"none">> THEN Ok(VmafScaleNone)
    ELSE IF vs = <<"auto">> THEN Ok(VmafScaleAuto)
    ELSE LET so == SplitOnce(vs, "x")
         IN  IF so = None THEN Err(Error("VmafScale", <<>>, <<>>))
             ELSE LET width == ParseU32(Unwrap(so)[1])
                      height == ParseU32(Unwrap(so)[2])
                  IN  IF width = None \/ height = None
                          THEN Err(Error("VmafScale", <<>>, <<>>))
                      ELSE Ok(VmafScaleCustom(Unwrap(width), Unwrap(height)))

\* A from_args that takes every model it does not know for the 1080p one.
VmafModelFromArgs_Lenient(a) ==
    LET using_custom_model == SelectSeq(a, LAMBDA v : Contains(v, "model"))
    IN  IF Len(using_custom_model) = 0 THEN None
        ELSE IF EndsWith(using_custom_model[1], <<"version=vmaf_4k_v0.6.1">>)
            THEN Some("Vmaf4K")
        ELSE Some("Vmaf1K")

\* VmafModel::from_args(args: &[Arc<str>]) -> Option<Self>
VmafModelFromArgs(a) ==
    LET using_custom_model == SelectSeq(a, LAMBDA v : Contains(v, "model"))
    IN  IF Len(using_custom_model) = 0 THEN None
        ELSE IF Len(using_custom_model) = 1
            THEN LET v == using_custom_model[1]
                 IN  IF EndsWith(v, <<"version=vmaf_v0.6.1">>) THEN Some("Vmaf1K")
                     ELSE IF EndsWith(v, <<"version=vmaf_4k_v0.6.1">>) THEN Some("Vmaf4K")
                     ELSE Some("Custom")
        ELSE Some("Custom")

\* Option<VmafModel>::unwrap_or_default: Vmaf1K is the #[default].
ModelOrDefault(m) == IF IsSome(m) THEN Unwrap(m) ELSE "Vmaf1K"

\* A vf_scale whose automatic thresholds take in their own value.
VfScale_Inclusive(self, m, res) ==
    IF self.vmaf_scale.kind = "Auto" /\ IsSome(res)
        THEN LET w == Unwrap(res)[1]
                 h == Unwrap(res)[2]
             IN  IF m = "Vmaf1K" /\ w <= 1728 /\ h <= 972
                     THEN Some(MinimallyScale(<<w, h>>, <<U32(1920), U32(1080)>>))
                 ELSE IF m = "Vmaf4K" /\ w <= 3456 /\ h <= 1944
                     THEN Some(MinimallyScale(<<w, h>>, <<U32(3840), U32(2160)>>))
                 ELSE None
    ELSE IF self.vmaf_scale.kind = "Custom" /\ IsSome(res)
        THEN Some(MinimallyScale(Unwrap(res),
                                 <<self.vmaf_scale.width, self.vmaf_scale.height>>))
    ELSE IF self.vmaf_scale.kind = "Custom"
        THEN Some(<<AsI32(self.vmaf_scale.width), AsI32(self.vmaf_scale.height)>>)
    ELSE None

\* Vmaf::vf_scale(&self, model, distorted_res) -> Option<(i32, i32)>
VfScale(self, m, res) ==
    IF self.vmaf_scale.kind = "Auto" /\ IsSome(res)
        THEN LET w == Unwrap(res)[1]
                 h == Unwrap(res)[2]
             IN  IF m = "Vmaf1K" /\ w < 1728 /\ h < 972
                     THEN Some(MinimallyScale(<<w, h>>, <<U32(1920), U32(1080)>>))
                 ELSE IF m = "Vmaf4K" /\ w < 3456 /\ h < 1944
                     THEN Some(MinimallyScale(<<w, h>>, <<U32(3840), U32(2160)>>))
                 ELSE None
    ELSE IF self.vmaf_scale.kind = "Custom" /\ IsSome(res)
        THEN Some(MinimallyScale(Unwrap(res),
                                 <<self.vmaf_scale.width, self.vmaf_scale.height>>))
    ELSE IF self.vmaf_scale.kind = "Custom"
        THEN Some(<<AsI32(self.vmaf_scale.width), AsI32(self.vmaf_scale.height)>>)
    ELSE None

\* PixelFormat::as_str, which is its Display
PixelFormatAsStr(v) ==
    CASE v = "Yuv420p10le" -> "yuv420p10le"
      [] v = "Yuv422p10le" -> "yuv422p10le"
      [] v = "Yuv444p10le" -> "yuv444p10le"
      [] v = "Yuv420p" -> "yuv420p"

\* ------------------------------------------------------ values of a VMAF run

VmafArgValues ==
    {<<"n_threads", "=", "5">>,
     <<"n_subsample", "=", "4">>,
     <<"model", "=", "version=vmaf_v0.6.1">>,
     <<"model", "=", "version=vmaf_4k_v0.6.1">>,
     <<"model", "=", "version=", "foo">>,
     <<"log_path", "=", "model", ".xml">>}

VmafScaleRawValues ==
    {<<"none">>,
     <<"auto">>,
     <<"1", "2", "3", "x", "7", "2", "0">>,
     <<"4", "2", "9", "4", "9", "6", "7", "2", "9", "5", "x", "1", "0", "8", "0">>,
     <<"4", "2", "9", "4", "9", "6", "7", "2", "9", "6", "x", "1", "0", "8", "0">>,
     <<"4", "2", "9", "4", "9", "6", "7", "2", "9", "5", "x",
       "4", "2", "9", "4", "9", "6", "7", "2", "9", "5">>,
     <<"1", "0", "8", "0">>}

\* Distorted resolutions around the thresholds of the 1080p and 4k models,
\* wide and tall.
DistortedResValues ==
    {None,
     Some(<<1280, 720>>), Some(<<640, 960>>), Some(<<1727, 971>>), Some(<<1727, 972>>),
     Some(<<1728, 972>>), Some(<<1920, 1080>>), Some(<<2560, 1440>>),
     Some(<<2561, 1440>>), Some(<<2561, 1441>>), Some(<<3008, 1692>>),
     Some(<<3455, 1943>>), Some(<<3456, 1944>>), Some(<<3840, 2160>>)}

LavfiPixFmtValues == {None, Some("Yuv420p"), Some("Yuv420p10le")}

RefVfilterValues ==
    {None,
     Some(<<"scale=", "1280:-1", ",", "fps=", "24">>),
     Some(<<"crop=", "1920:800:0:140", ",">>)}

\* thread::available_parallelism(): unsupported, or a count of at least one.
ParallelismOutcomes == {Err(<<"unsupported">>), Ok(1), Ok(8)}

\* No encode argument run is under way.
EncodeIdle ==
    /\ pc = "idle"
    /\ nopts = 0
    /\ enc = DefaultEncode
    /\ probe = NoProbe
    /\ ext = <<>>
    /\ filters = <<>>
    /\ preset = None
    /\ keyint = None
    /\ svtav1_params = <<>>
    /\ cuda_input_args = <<>>
    /\ cuda_filters = <<>>
    /\ args = <<>>
    /\ pix_fmt = None
    /\ vfilter = <<>>
    /\ input_args = <<>>
    /\ result = NoResult

\* What a VMAF run leaves alone.
encodevars == <<pc, nopts, enc, probe, ext, locals, result>>

\* Vmaf::default(), before clap reads the Vmaf options.
InitVmaf ==
    /\ EncodeIdle
    /\ HwIdle
    /\ vpc = "cli"
    /\ vmaf = [vmaf_args |-> <<>>, vmaf_scale |-> VmafScaleAuto]
    /\ distorted_res = None
    /\ lavfi_pix_fmt = None
    /\ ref_vfilter = None
    /\ lavfi_args = <<>>
    /\ lavfi = <<>>
    /\ model = None
    /\ vmaf_result = NoResult

\* --vmaf <arg>
OptVmaf ==
    /\ vpc = "cli"
    /\ Len(vmaf.vmaf_args) < MaxVmafArgs
    /\ \E raw \in VmafArgValues :
           vmaf' = [vmaf EXCEPT !.vmaf_args = Append(@, ParseVmafArg(raw).val)]
    /\ UNCHANGED <<vpc, distorted_res, lavfi_pix_fmt, ref_vfilter, lavfi_args, lavfi,
                   model, vmaf_result, encodevars, hwvars>>

\* --vmaf-scale <vs>, given once
OptVmafScale ==
    /\ vpc = "cli"
    /\ vmaf.vmaf_scale = VmafScaleAuto
    /\ \E raw \in VmafScaleRawValues :
           LET r == ParseVmafScale(raw)
           IN  IF r.tag = "ok"
               THEN /\ vmaf' = [vmaf EXCEPT !.vmaf_scale = r.val]
                    /\ UNCHANGED <<vpc, vmaf_result>>
               ELSE /\ vpc' = "done"
                    /\ vmaf_result' = r
                    /\ UNCHANGED vmaf
    /\ UNCHANGED <<distorted_res, lavfi_pix_fmt, ref_vfilter, lavfi_args, lavfi, model,
                   encodevars, hwvars>>

\* pub fn ffmpeg_lavfi(&self, distorted_res, pix_fmt, ref_vfilter) is entered:
\* let mut args = self.vmaf_args.clone()
FfmpegLavfi ==
    /\ vpc = "cli"
    /\ vpc' = "n_threads"
    /\ distorted_res' \in DistortedResValues
    /\ lavfi_pix_fmt' \in LavfiPixFmtValues
    /\ ref_vfilter' \in RefVfilterValues
    /\ lavfi_args' = vmaf.vmaf_args
    /\ UNCHANGED <<vmaf, lavfi, model, vmaf_result, encodevars, hwvars>>

\* A thread count that is 0 where the parallelism is not known.
MapOr1_Zero(p) == IF p.tag = "ok" THEN p.val ELSE 0

\* thread::available_parallelism().map_or(1, |p| p.get())
MapOr1(p) == IF p.tag = "ok" THEN p.val ELSE 1

\* The n_threads default, then lavfi = "libvmaf=shortest=true:
\* ts_sync_mode=nearest:" followed by the ':'-joined args.
DefaultThreads ==
    /\ vpc = "n_threads"
    /\ \E p \in ParallelismOutcomes :
           LET a == IF ~\E i \in 1..Len(lavfi_args) : Contains(lavfi_args[i], "n_threads")
                    THEN Append(lavfi_args, <<"n_threads", "=", ToString(MapOr1(p))>>)
                    ELSE lavfi_args
           IN  /\ lavfi_args' = a
               /\ lavfi' = <<"libvmaf=", "shortest=true", ":", "ts_sync_mode=nearest", ":">>
                               \o Join(a, <<":">>)
    /\ vpc' = "model"
    /\ UNCHANGED <<vmaf, distorted_res, lavfi_pix_fmt, ref_vfilter, model, vmaf_result,
                   encodevars, hwvars>>

\* A 4k threshold that one dimension alone can pass.
Above2k_Either(res) == Unwrap(res)[1] > 2560 \/ Unwrap(res)[2] > 1440

\* The distorted resolution calls for the 4k model: w > 2560 && h > 1440.
Above2k(res) == Unwrap(res)[1] > 2560 /\ Unwrap(res)[2] > 1440

\* let mut model = VmafModel::from_args(&args), and the 4k model for
\* resolutions above 2k when the arguments name none.
ResolveModel ==
    /\ vpc = "model"
    /\ LET m == VmafModelFromArgs(lavfi_args)
       IN  IF m = None /\ IsSome(distorted_res) /\ Above2k(distorted_res)
           THEN /\ lavfi' = lavfi \o <<":", "model", "=", "version=vmaf_4k_v0.6.1">>
                /\ model' = Some("Vmaf4K")
           ELSE /\ lavfi' = lavfi
                /\ model' = m
    /\ vpc' = "prefix"
    /\ UNCHANGED <<vmaf, distorted_res, lavfi_pix_fmt, ref_vfilter, lavfi_args,
                   vmaf_result, encodevars, hwvars>>

\* A ref_vf that puts a ',' after every filter.
RefVf_AlwaysComma(rv) == IF rv = None THEN <<>> ELSE Unwrap(rv) \o <<",">>

\* let ref_vf: Cow<_> = match ref_vfilter { ... }
RefVf(rv) ==
    IF rv = None THEN <<>>
    ELSE IF EndsWith(Unwrap(rv), <<",">>) THEN Unwrap(rv)
    ELSE Unwrap(rv) \o <<",">>

\* pix_fmt.map(|v| format!("format={v},")).unwrap_or_default()
FormatStep(pf) ==
    IF IsSome(pf) THEN <<"format=", PixelFormatAsStr(Unwrap(pf)), ",">> ELSE <<>>

\* .map(|(w, h)| format!("scale={w}:{h}:flags=bicubic,")).unwrap_or_default()
ScaleStep(sc) ==
    IF IsSome(sc)
    THEN <<"scale=", ToString(Unwrap(sc)[1]), ":", ToString(Unwrap(sc)[2]),
           ":flags=bicubic", ",">>
    ELSE <<>>

\* let prefix = format!("[0:v]{format}{scale}setpts=...[dis];[1:v]...[ref];[dis][ref]")
Prefix(format, ref_vf, scale) ==
    <<"[0:v]">> \o format \o scale
        \o <<"setpts=PTS-STARTPTS", ",", "settb=AVTB", "[dis]", ";">>
        \o <<"[1:v]">> \o format \o ref_vf \o scale
        \o <<"setpts=PTS-STARTPTS", ",", "settb=AVTB", "[ref]", ";">>
        \o <<"[dis]", "[ref]">>

\* The prefix is put before lavfi, which is returned.
BuildPrefix ==
    /\ vpc = "prefix"
    /\ LET scale == ScaleStep(VfScale(vmaf, ModelOrDefault(model), distorted_res))
       IN  /\ lavfi' = Prefix(FormatStep(lavfi_pix_fmt), RefVf(ref_vfilter), scale) \o lavfi
           /\ vmaf_result' = Ok(lavfi')
    /\ vpc' = "done"
    /\ UNCHANGED <<vmaf, distorted_res, lavfi_pix_fmt, ref_vfilter, lavfi_args, model,
                   encodevars, hwvars>>

NextVmaf ==
    \/ OptVmaf
    \/ OptVmafScale
    \/ FfmpegLavfi
    \/ DefaultThreads
    \/ ResolveModel
    \/ BuildPrefix

SpecVmaf == InitVmaf /\ [][NextVmaf]_vars

\* -------------------------------------------- terms of the VMAF claims

\* ffmpeg_lavfi has returned.
LavfiReturned == vpc = "done" /\ vmaf_result.tag = "ok"

\* How often the atom a occurs in the string s.
Count(s, a) == Cardinality({i \in 1..Len(s) : s[i] = a})

\* How often the atom a occurs in the user's vmaf arguments.
CountInArgs(a) == Count(Flatten(vmaf.vmaf_args), a)

\* No vmaf argument of the user contains the text 'model'.
NoModelArg == CountInArgs("model") = 0

\* The distorted resolution is known and is <<w, h>>.
ResIs(w, h) == distorted_res = Some(<<w, h>>)

\* The model-override token as it stands at the end of the filter.
Token4k == <<":", "model", "=", "version=vmaf_4k_v0.6.1">>

\* The filter has a scale step: only a scale step carries the bicubic flag.
HasScaleStep == Contains(vmaf_result.val, ":flags=bicubic")

\* The 4k model was chosen for the resolution, not by the user.
AutoPromoted ==
    /\ NoModelArg
    /\ distorted_res # None
    /\ Unwrap(distorted_res)[1] > 2560
    /\ Unwrap(distorted_res)[2] > 1440

\* The token is appended once, last, exactly when the 4k model was chosen
\* for the resolution.
TokenIffPromoted ==
    /\ Count(vmaf_result.val, "version=vmaf_4k_v0.6.1")
           = CountInArgs("version=vmaf_4k_v0.6.1") + (IF AutoPromoted THEN 1 ELSE 0)
    /\ Count(vmaf_result.val, "model") = CountInArgs("model") + (IF AutoPromoted THEN 1 ELSE 0)
    /\ AutoPromoted => EndsWith(vmaf_result.val, Token4k)

\* C11 as stated: the token model=version=vmaf_4k_v0.6.1 is appended, once
\* and last, exactly when no vmaf argument contains 'model' and the
\* distorted resolution is known with width > 2560 and height > 1440; at
\* 3840x2160 the token is present and there is no scale step.
C11_4kModelToken ==
    LavfiReturned =>
        /\ TokenIffPromoted
        /\ ResIs(3840, 2160) /\ NoModelArg =>
               EndsWith(vmaf_result.val, Token4k) /\ ~HasScaleStep

\* C11 as amended: the same, with no scale step at 3840x2160 unless the
\* scale policy is an explicit WxH.
C11_4kModelTokenAutoScale ==
    LavfiReturned =>
        /\ TokenIffPromoted
        /\ ResIs(3840, 2160) /\ NoModelArg =>
               /\ EndsWith(vmaf_result.val, Token4k)
               /\ vmaf.vmaf_scale.kind # "Custom" => ~HasScaleStep

\* C11's case: 3840x2160 with n_threads=5 and n_subsample=4 under the
\* automatic policy gets the token and no scale step.
C11_Witness ==
    /\ LavfiReturned
    /\ ResIs(3840, 2160)
    /\ vmaf.vmaf_args = << <<"n_threads", "=", "5">>, <<"n_subsample", "=", "4">> >>
    /\ vmaf.vmaf_scale = VmafScaleAuto
    /\ EndsWith(vmaf_result.val, Token4k)
    /\ ~HasScaleStep

\* The <<width, height>> texts of the scale steps of the returned filter: a
\* scale step is scale=<w>:<h>:flags=bicubic, on either branch.
ScaleSteps ==
    LET r == vmaf_result.val
    IN  {<<r[i + 1], r[i + 3]>> :
            i \in {j \in 1..(Len(r) - 4) :
                      r[j] = "scale=" /\ r[j + 2] = ":" /\ r[j + 4] = ":flags=bicubic"}}

\* A scale step towards W x H sets one dimension and leaves the other to
\* the aspect ratio.
Towards(W, H) == {<<W, "-1">>, <<"-1", H>>}

\* The user's arguments name exactly one model, with the given version.
ExplicitModel(version) ==
    /\ CountInArgs("model") = 1
    /\ \E i \in 1..Len(vmaf.vmaf_args) :
           vmaf.vmaf_args[i] = <<"model", "=", version>>

\* The 1080p model is in use: by default or named by the user.
Model1k == (NoModelArg /\ ~AutoPromoted) \/ ExplicitModel("version=vmaf_v0.6.1")

\* The 4k model is in use: chosen for the resolution or named by the user.
Model4k == AutoPromoted \/ ExplicitModel("version=vmaf_4k_v0.6.1")

\* The distorted resolution is known, narrower than w and lower than h.
Below(w, h) ==
    distorted_res # None /\ Unwrap(distorted_res)[1] < w /\ Unwrap(distorted_res)[2] < h

\* C12: under the automatic policy with a known resolution, the 1080p model
\* gets a scale step towards 1920x1080 exactly when w < 1728 and h < 972,
\* the 4k model one towards 3840x2160 exactly when w < 3456 and h < 1944;
\* policy 'none', and the automatic policy with an unknown resolution, give
\* no scale step.  1280x720 gives 1920:-1, 1920x1080 none, 3008x1692
\* 3840:-1.
C12_AutoScale ==
    LavfiReturned =>
        /\ vmaf.vmaf_scale.kind = "Auto" /\ distorted_res # None /\ Model1k =>
               /\ (ScaleSteps # {}) = Below(1728, 972)
               /\ ScaleSteps \subseteq Towards("1920", "1080")
               /\ Cardinality(ScaleSteps) <= 1
        /\ vmaf.vmaf_scale.kind = "Auto" /\ distorted_res # None /\ Model4k =>
               /\ (ScaleSteps # {}) = Below(3456, 1944)
               /\ ScaleSteps \subseteq Towards("3840", "2160")
               /\ Cardinality(ScaleSteps) <= 1
        /\ vmaf.vmaf_scale.kind = "None" => ~HasScaleStep
        /\ vmaf.vmaf_scale.kind = "Auto" /\ distorted_res = None => ~HasScaleStep
        /\ vmaf.vmaf_scale.kind = "Auto" /\ NoModelArg =>
               /\ ResIs(1280, 720) => ScaleSteps = {<<"1920", "-1">>}
               /\ ResIs(1920, 1080) => ScaleSteps = {}
               /\ ResIs(3008, 1692) => ScaleSteps = {<<"3840", "-1">>}

\* C12's case: 3008x1692 is promoted to the 4k model and scaled up to it.
C12_Witness ==
    /\ LavfiReturned
    /\ vmaf.vmaf_scale = VmafScaleAuto
    /\ NoModelArg
    /\ ResIs(3008, 1692)
    /\ ScaleSteps = {<<"3840", "-1">>}

\* The user's vmaf arguments that contain the text 'model'.
ModelArgs == SelectSeq(vmaf.vmaf_args, LAMBDA v : \E i \in 1..Len(v) : v[i] = "model")

\* The user's arguments name a custom model: one argument containing
\* 'model' that ends with neither known version, or several such arguments.
CustomModel ==
    \/ Len(ModelArgs) > 1
    \/ /\ Len(ModelArgs) = 1
       /\ ModelArgs[1][Len(ModelArgs[1])]
              \notin {"version=vmaf_v0.6.1", "version=vmaf_4k_v0.6.1"}

\* C13: with a custom model the automatic policy gives no scale step and no
\* model-override token, whatever the distorted resolution; an explicit WxH
\* policy still gives its scale step.
C13_CustomModel ==
    LavfiReturned /\ CustomModel =>
        /\ Count(vmaf_result.val, "model") = CountInArgs("model")
        /\ Count(vmaf_result.val, "version=vmaf_4k_v0.6.1")
               = CountInArgs("version=vmaf_4k_v0.6.1")
        /\ vmaf.vmaf_scale.kind = "Auto" => ~HasScaleStep
        /\ vmaf.vmaf_scale.kind = "Custom" => Cardinality(ScaleSteps) = 1

\* C13's case: model=version=foo at 1280x720 under the automatic policy.
C13_Witness ==
    /\ LavfiReturned
    /\ vmaf.vmaf_args = << <<"model", "=", "version=", "foo">> >>
    /\ vmaf.vmaf_scale = VmafScaleAuto
    /\ ResIs(1280, 720)
    /\ ~HasScaleStep

\* The format step a branch must carry for the pixel format of the call.
ExpectedFormat ==
    IF lavfi_pix_fmt = None THEN <<>>
    ELSE IF lavfi_pix_fmt = Some("Yuv420p") THEN <<"format=", "yuv420p", ",">>
    ELSE <<"format=", "yuv420p10le", ",">>

\* The reference filter as a branch must carry it: the supplied filter
\* without a ',' at its end, then one ','.
ExpectedRefFilter ==
    IF ref_vfilter = None THEN <<>>
    ELSE LET vf == Unwrap(ref_vfilter)
             bare == IF vf[Len(vf)] = "," THEN SubSeq(vf, 1, Len(vf) - 1) ELSE vf
         IN  bare \o <<",">>

\* The scale steps a branch may carry: none, or one the filter holds.
ScaleStepTexts ==
    {<<>>} \cup {<<"scale=", wh[1], ":", wh[2], ":flags=bicubic", ",">> : wh \in ScaleSteps}

Sync == <<"setpts=PTS-STARTPTS", ",", "settb=AVTB">>

\* C14: ffmpeg_lavfi always returns.  Its result is the distorted branch
\* [0:v], the reference branch [1:v] and [dis][ref]libvmaf=shortest=true:
\* ts_sync_mode=nearest:...; both branches carry the same format step
\* (there exactly when a pixel format is given) and the same scale step and
\* end with setpts=PTS-STARTPTS,settb=AVTB; the reference filter stands on
\* the reference branch only, between format and scale, followed by one ','.
C14_TwoBranches ==
    /\ vpc = "n_threads" => ENABLED DefaultThreads
    /\ vpc = "model" => ENABLED ResolveModel
    /\ vpc = "prefix" => ENABLED BuildPrefix
    /\ vpc = "done" /\ vmaf_result.tag = "err" => vmaf_result.err.kind = "VmafScale"
    /\ LavfiReturned =>
           \E sc \in ScaleStepTexts :
               /\ (sc = <<>>) = (ScaleSteps = {})
               /\ StartsWith(vmaf_result.val,
                      <<"[0:v]">> \o ExpectedFormat \o sc \o Sync \o <<"[dis]", ";">>
                      \o <<"[1:v]">> \o ExpectedFormat \o ExpectedRefFilter \o sc \o Sync
                      \o <<"[ref]", ";">>
                      \o <<"[dis]", "[ref]", "libvmaf=", "shortest=true", ":",
                           "ts_sync_mode=nearest", ":">>)

\* C14's case: a reference filter that ends with ',' together with a
\* format step and a scale step.
C14_Witness ==
    /\ LavfiReturned
    /\ ref_vfilter = Some(<<"crop=", "1920:800:0:140", ",">>)
    /\ lavfi_pix_fmt = Some("Yuv420p")
    /\ ScaleSteps = {<<"1920", "-1">>}

\* The user's vmaf arguments as the libvmaf options hold them: each after
\* a ':', in the order given.
UserPart == Flatten([i \in 1..Len(vmaf.vmaf_args) |-> <<":">> \o vmaf.vmaf_args[i]])

\* The texts of the thread counts a machine can have, 1 at least.
ThreadTexts == {ToString(n) : n \in 1..8}

\* C15: n_threads=<parallelism, 1 at least> follows the user's vmaf
\* arguments exactly when none of them contains 'n_threads'; a user's
\* n_threads is neither repeated nor replaced; the user's arguments stand in
\* their order right after shortest=true:ts_sync_mode=nearest.
C15_DefaultThreads ==
    LavfiReturned =>
        /\ Count(vmaf_result.val, "n_threads")
               = (IF CountInArgs("n_threads") = 0 THEN 1 ELSE CountInArgs("n_threads"))
        /\ \E n \in ThreadTexts, tok \in {<<>>, Token4k} :
               EndsWith(vmaf_result.val,
                   <<"[dis]", "[ref]", "libvmaf=", "shortest=true", ":", "ts_sync_mode=nearest">>
                   \o UserPart
                   \o (IF CountInArgs("n_threads") = 0
                       THEN <<":", "n_threads", "=", n>> ELSE <<>>)
                   \o tok)

\* C15's case: n_subsample=4 alone, on a machine whose parallelism is not
\* known: n_threads=1 is put after it.
C15_Witness ==
    /\ LavfiReturned
    /\ vmaf.vmaf_args = << <<"n_subsample", "=", "4">> >>
    /\ EndsWith(vmaf_result.val,
                <<":", "n_subsample", "=", "4", ":", "n_threads", "=", "1">>)

\* The decimal text of a u32 of the model.
U32Text(u) ==
    IF u = [hi |-> 65535, lo |-> 65535] THEN "4294967295"
    ELSE ToString(u.hi * 65536 + u.lo)

\* C16: with an explicit WxH policy the scale step is always there,
\* whatever the model; with a known distorted resolution it is the minimal
\* scale for (W, H), exactly one of its dimensions being -1; with an unknown
\* one it is W:H as given, with no -1.
C16_ExplicitScale ==
    LavfiReturned /\ vmaf.vmaf_scale.kind = "Custom" =>
        /\ Cardinality(ScaleSteps) = 1
        /\ \A wh \in ScaleSteps :
               IF distorted_res # None
               THEN /\ (wh[1] = "-1") # (wh[2] = "-1")
                    /\ wh \in Towards(U32Text(vmaf.vmaf_scale.width),
                                      U32Text(vmaf.vmaf_scale.height))
               ELSE /\ wh = <<U32Text(vmaf.vmaf_scale.width), U32Text(vmaf.vmaf_scale.height)>>
                    /\ wh[1] # "-1"
                    /\ wh[2] # "-1"

\* =========================================== the hardware decoder arguments

\* A decoder choice that knows h264 only.
AutoSelectDecoder_H264Only(codec) ==
    IF codec = <<"h264">> THEN Some(<<"h264", "_cuvid">>) ELSE None

\* crate::auto_hw_decoder::auto_select_decoder(codec: &str) -> Option<&'static str>
AutoSelectDecoder(codec) ==
    IF codec = <<"h264">> THEN Some(<<"h264", "_cuvid">>)
    ELSE IF codec = <<"hevc">> THEN Some(<<"hevc", "_cuvid">>)
    ELSE IF codec = <<"vp9">> THEN Some(<<"vp9", "_cuvid">>)
    ELSE None

\* crate::command::auto_hw_decoder::auto_select_decoder(codec: &str) -> Option<String>
CommandAutoSelectDecoder(codec) ==
    IF codec = <<"h264">> THEN Some(<<"h264", "_cuvid">>)
    ELSE IF codec = <<"hevc">> THEN Some(<<"hevc", "_cuvid">>)
    ELSE None

\* pub fn apply_cuda_scaling_method(method: &str) -> String
ApplyCudaScalingMethod(method) == <<"scale_cuda=format=nv12:interp_algo=">> \o method

CodecValues == {<<"h264">>, <<"hevc">>, <<"vp9">>, <<"av1">>, <<"mpeg2video">>}

\* Detected crop rectangles: top, bottom, left, right.
CropValues == {[top |-> 140, bottom |-> 140, left |-> 0, right |-> 0]}

HwVfilterValues == {<<>>, <<"scale=", "1280:720">>, <<"fps=", "24">>}

\* The structs the builder may be called on.
HwValues ==
    [auto_hw_decoder : BOOLEAN,
     detected_input_codec : {None} \cup {Some(c) : c \in CodecValues},
     detected_crop : {None} \cup {Some(c) : c \in CropValues},
     vfilter : HwVfilterValues,
     cuda_scaling_method : {None, Some(<<"bicubic">>)}]

\* pub fn to_ffmpeg_args(&self) -> Vec<String> is about to be called on some
\* struct; command::auto_hw_decoder has not been asked.
InitHw ==
    /\ EncodeIdle
    /\ VmafIdle
    /\ hpc = "select"
    /\ hw \in HwValues
    /\ hw_args = <<>>
    /\ hw_decoder = None
    /\ hw_vfilter = <<>>
    /\ hw_result = NoResult
    /\ command_decoder = NoResult

\* if self.auto_hw_decoder { if let Some(codec) = ... { if let Some(decoder)
\* = auto_select_decoder(codec) { args.extend(...) } } }
HwSelectDecoder ==
    /\ hpc = "select"
    /\ LET decoder == IF hw.auto_hw_decoder /\ IsSome(hw.detected_input_codec)
                      THEN AutoSelectDecoder(Unwrap(hw.detected_input_codec))
                      ELSE None
       IN  /\ hw_decoder' = decoder
           /\ hw_args' = IF IsSome(decoder)
                         THEN << <<"-", "hwaccel">>, <<"cuda">>,
                                 <<"-", "hwaccel_output_format">>, <<"cuda">>,
                                 <<"-", "c:v">>, Unwrap(decoder) >>
                         ELSE <<>>
    /\ hpc' = "crop"
    /\ UNCHANGED <<hw, hw_vfilter, hw_result, command_decoder, encodevars, vmafvars>>

\* format!("{}:{}:{}:{}", crop.top, crop.bottom, crop.left, crop.right)
CropArg(crop) ==
    <<ToString(crop.top), ":", ToString(crop.bottom), ":", ToString(crop.left), ":",
      ToString(crop.right)>>

\* Inside the decoder branch: if let Some(crop) = &self.detected_crop { if
\* decoder.ends_with("_cuvid") { args.extend(["-crop", crop_arg]) } }
HwCrop ==
    /\ hpc = "crop"
    /\ hw_args' = IF /\ IsSome(hw_decoder)
                     /\ IsSome(hw.detected_crop)
                     /\ EndsWith(Unwrap(hw_decoder), <<"_cuvid">>)
                  THEN hw_args \o << <<"-", "crop">>, CropArg(Unwrap(hw.detected_crop)) >>
                  ELSE hw_args
    /\ hpc' = "vfilter"
    /\ UNCHANGED <<hw, hw_decoder, hw_vfilter, hw_result, command_decoder, encodevars,
                   vmafvars>>

\* self.cuda_scaling_method.as_deref().unwrap_or("lanczos")
ScalingMethod(h) ==
    IF IsSome(h.cuda_scaling_method) THEN Unwrap(h.cuda_scaling_method) ELSE <<"lanczos">>

\* The vfilter with its scale= rewritten, pushed after -vf when it is not
\* empty; args is returned.
HwVfilter ==
    /\ hpc = "vfilter"
    /\ LET vf == IF Contains(hw.vfilter, "scale=")
                 THEN Replace(hw.vfilter, "scale=", ApplyCudaScalingMethod(ScalingMethod(hw)))
                 ELSE hw.vfilter
       IN  /\ hw_vfilter' = vf
           /\ hw_args' = IF vf # <<>> THEN hw_args \o << <<"-", "vf">>, vf >> ELSE hw_args
    /\ hw_result' = Ok(hw_args')
    /\ hpc' = "done"
    /\ UNCHANGED <<hw, hw_decoder, command_decoder, encodevars, vmafvars>>

\* command::auto_hw_decoder::auto_select_decoder is called on some codec.
CallCommandAutoSelectDecoder ==
    /\ command_decoder = NoResult
    /\ \E codec \in CodecValues :
           command_decoder' = [tag |-> "ok", codec |-> codec,
                               val |-> CommandAutoSelectDecoder(codec)]
    /\ UNCHANGED <<hpc, hw, hw_args, hw_decoder, hw_vfilter, hw_result, encodevars,
                   vmafvars>>

NextHw ==
    \/ HwSelectDecoder
    \/ HwCrop
    \/ HwVfilter
    \/ CallCommandAutoSelectDecoder

SpecHw == InitHw /\ [][NextHw]_vars

\* ------------------------------------- terms of the hardware decoder claim

\* The decoder choice as the specification gives it: h264 and hevc only.
StatedDecoderFor(codec) ==
    IF codec = <<"h264">> THEN Some(<<"h264", "_cuvid">>)
    ELSE IF codec = <<"hevc">> THEN Some(<<"hevc", "_cuvid">>)
    ELSE None

\* The decoder choice with vp9 as a third known codec.
DecoderWithVp9For(codec) ==
    IF codec = <<"vp9">> THEN Some(<<"vp9", "_cuvid">>) ELSE StatedDecoderFor(codec)

HwFlags ==
    {<<"-", "hwaccel">>, <<"-", "hwaccel_output_format">>, <<"-", "c:v">>, <<"-", "crop">>}

\* What the builder's arguments must be like when sel is the decoder that
\* is to be selected for the detected codec.
HwArgsFollow(sel) ==
    LET chosen == IF hw.auto_hw_decoder /\ hw.detected_input_codec # None
                  THEN sel ELSE None
        a == hw_result.val
    IN  /\ chosen = None => \A i \in 1..Len(a) : a[i] \notin HwFlags
        /\ chosen # None =>
               StartsWith(a, << <<"-", "hwaccel">>, <<"cuda">>,
                                <<"-", "hwaccel_output_format">>, <<"cuda">>,
                                <<"-", "c:v">>, Unwrap(chosen) >>)
        /\ (\E i \in 1..Len(a) : a[i] = <<"-", "crop">>) =>
               /\ chosen # None
               /\ Unwrap(chosen)[Len(Unwrap(chosen))] = "_cuvid"
               /\ hw.detected_crop # None

\* The codec the builder was called with, or some codec when there is none.
DetectedCodec ==
    IF hw.detected_input_codec # None THEN Unwrap(hw.detected_input_codec) ELSE <<"none">>

\* command::auto_hw_decoder's answer is the stated one.
CommandChoiceAsStated ==
    command_decoder.tag = "ok" => command_decoder.val = StatedDecoderFor(command_decoder.codec)

\* C17 as stated: h264 gives h264_cuvid, hevc gives hevc_cuvid, every other
\* codec no decoder; with the flag off, no detected codec or no decoder
\* selected the arguments hold none of -hwaccel, -hwaccel_output_format,
\* -c:v and -crop; -crop comes only with a selected *_cuvid decoder and a
\* detected crop.
C17_AutoDecoder ==
    /\ CommandChoiceAsStated
    /\ hpc = "done" => HwArgsFollow(StatedDecoderFor(DetectedCodec))

\* C17 as amended: the same, with vp9 giving vp9_cuvid in the
\* auto_select_decoder that to_ffmpeg_args calls.
C17_AutoDecoderWithVp9 ==
    /\ CommandChoiceAsStated
    /\ hpc = "done" => HwArgsFollow(DecoderWithVp9For(DetectedCodec))

\* C17's case: hevc with a detected crop gets hevc_cuvid and -crop.
C17_Witness ==
    /\ hpc = "done"
    /\ hw.auto_hw_decoder
    /\ hw.detected_input_codec = Some(<<"hevc">>)
    /\ hw_result.val = << <<"-", "hwaccel">>, <<"cuda">>,
                          <<"-", "hwaccel_output_format">>, <<"cuda">>,
                          <<"-", "c:v">>, <<"hevc", "_cuvid">>,
                          <<"-", "crop">>, <<"140", ":", "140", ":", "0", ":", "0">> >>

\* ============================== claims on the flattened user arguments

\* The tokens the user's argument a is to give: its text before the first
\* '=' and its text after it, or a itself when it has no '='.
TokensOf(a) ==
    IF \E i \in 1..Len(a) : a[i] = "="
    THEN LET first == CHOOSE i \in 1..Len(a) :
                          a[i] = "=" /\ \A j \in 1..(i - 1) : a[j] # "="
         IN  <<SubSeq(a, 1, first - 1), SubSeq(a, first + 1, Len(a))>>
    ELSE <<a>>

\* The tokens the user's arguments are to give, in their order.
TokensOfAll(as) == Flatten([i \in 1..Len(as) |-> TokensOf(as[i])])

\* The argument a is the raw command-line value raw with a '-' before it
\* unless raw has one.
Dashed(a, raw) == a = (IF raw[1] = "-" THEN raw ELSE <<"-">> \o raw)

\* C18: every --enc and --enc-input argument of the configuration is the
\* user's with a '-' put before it if it had none; in an Ok result the
\* output and the input arguments begin with the user's arguments in their
\* order, each split at its first '=' into flag and value, or whole if it
\* has no '='.
C18_UserArgsFlattened ==
    /\ \A i \in 1..Len(enc.enc_args) :
           \E raw \in EncRawValues : Dashed(enc.enc_args[i], raw)
    /\ \A i \in 1..Len(enc.enc_input_args) :
           \E raw \in EncInputRawValues : Dashed(enc.enc_input_args[i], raw)
    /\ Returned =>
           /\ StartsWith(result.val.output_args, TokensOfAll(enc.enc_args))
           /\ StartsWith(result.val.input_args, TokensOfAll(enc.enc_input_args))

\* C18's case: --enc x265-params=lossless=1 --enc-input -re
\* --enc-input hwaccel=vaapi.
C18_Witness ==
    /\ Returned
    /\ StartsWith(result.val.output_args,
                  << <<"-", "x265-params">>, <<"lossless", "=", "1">> >>)
    /\ StartsWith(result.val.input_args,
                  << <<"-", "re">>, <<"-", "hwaccel">>, <<"vaapi">> >>)

\* ===================================== a directly constructed Encode

\* The fields of Encode are public and the struct is built by a literal
\* (as the tests of to_ffmpeg_args do), so enc_args need not have gone
\* through parse_enc_arg.
DirectEncArgValues ==
    {<<"svtav1-params", "=", "tune", "=", "0">>,
     <<"-", "svtav1-params", "=", "tune", "=", "0">>,
     <<"-", "an">>}

DirectEncArgSeqs ==
    {<<>>} \cup {<<a>> : a \in DirectEncArgValues}
           \cup {<<a, b>> : a \in DirectEncArgValues, b \in DirectEncArgValues}

\* The struct literals: the tests' fields, with enc_args given.
DirectEncodeValues ==
    {[DefaultEncode EXCEPT !.encoder = e, !.vfilter = vf, !.svt_args = svt, !.enc_args = ea] :
         e \in {Libsvtav1, <<"libx264">>},
         vf \in {None, Some(<<"scale=", "320:-1", ",", "fps=", "film">>)},
         svt \in {<<>>, << <<"film-grain", "=", "30">> >>},
         ea \in DirectEncArgSeqs}

\* let enc = Encode { ... };
InitDirect ==
    /\ pc = "cli"
    /\ nopts = 0
    /\ enc \in DirectEncodeValues
    /\ probe = NoProbe
    /\ ext = <<>>
    /\ filters = <<>>
    /\ preset = None
    /\ keyint = None
    /\ svtav1_params = <<>>
    /\ cuda_input_args = <<>>
    /\ cuda_filters = <<>>
    /\ args = <<>>
    /\ pix_fmt = None
    /\ vfilter = <<>>
    /\ input_args = <<>>
    /\ result = NoResult
    /\ VmafIdle
    /\ HwIdle

\* enc.to_ffmpeg_args(crf, &probe)
NextDirect ==
    \/ Ffprobe
    \/ CheckDecoder
    \/ AutoCrop
    \/ SvtGate
    \/ ValidateCuda
    \/ ResolveKeyint
    \/ BuildArgs
    \/ CheckReserved

SpecDirect == InitDirect /\ [][NextDirect]_vars

\* ------------------------------------------- claim on -svtav1-params

\* The argument a names the option svtav1-params before its first '='.
IsSvtParamsOption(a) == Len(TokensOf(a)) = 2 /\ TokensOf(a)[1] = <<"svtav1-params">>

\* The user's output arguments that are not folded, flattened.
UnfoldedTokens == TokensOfAll(SelectSeq(enc.enc_args, LAMBDA a : ~IsSvtParamsOption(a)))

\* The values of the user's svtav1-params options.
FoldedValues ==
    LET folded == SelectSeq(enc.enc_args, IsSvtParamsOption)
    IN  [i \in 1..Len(folded) |-> TokensOf(folded[i])[2]]

\* The value -svtav1-params is to have: scd=<flag> and the --svt
\* arguments (libsvtav1), then the folded values, joined with ':'.
StatedSvtValue ==
    Join((IF IsSvtav1(enc)
          THEN <<ScdParam(ScdFlag(enc.scd, enc.keyint, keyint))>> \o enc.svt_args
          ELSE <<>>) \o FoldedValues, <<":">>)

ChainBuilt == pc = "reserved" \/ Returned

\* The chain c is hwdownload,format=nv12,<inner>,hwupload_cuda with no
\* further hwdownload in it and no second hwupload_cuda at its end.
BracketedOnce(c) ==
    /\ Len(c) > 6
    /\ SubSeq(c, 1, 4) = <<"hwdownload", ",", "format=nv12", ",">>
    /\ SubSeq(c, Len(c) - 1, Len(c)) = <<",", "hwupload_cuda">>
    /\ Count(c, "hwdownload") = 1
    /\ SubSeq(c, Len(c) - 3, Len(c) - 2) # <<",", "hwupload_cuda">>

\* C20: with a CUDA decoder and CUDA filters the chain built is
\* hwdownload,format=nv12,<rewritten filters>,hwupload_cuda, bracketed
\* exactly once; with no CUDA decoder or no CUDA filters no chain is built.
C20_CudaChainBracketedOnce ==
    ChainBuilt =>
        IF IsSome(enc.cuda_decoder) /\ enc.cuda_filters # <<>>
        THEN BracketedOnce(cuda_filters)
        ELSE cuda_filters = <<>>

\* The second half of C20 alone: no chain without a decoder or filters.
NoChainWithoutCuda ==
    ChainBuilt /\ ~(IsSome(enc.cuda_decoder) /\ enc.cuda_filters # <<>>)
        => cuda_filters = <<>>

\* ------------------------------------------- claim on the CUDA rewriting

\* The string p stands in the string s.
Infix(p, s) == \E k \in 0..(Len(s) - Len(p)) : SubSeq(s, k + 1, k + Len(p)) = p

\* The ','-separated filters of the chain c.
ChainFilters(c) == Range(Split(c, ","))

\* The chain c holds a scale_cuda filter with the interpolation method and
\* the arguments wh of the user's scale= as ':'-delimited options.
ScaleCudaWith(c, method, wh) ==
    \E t \in ChainFilters(c) :
        /\ StartsWith(t, <<"scale_cuda=">>)
        /\ \/ Infix(<<"interp_algo=">> \o method \o <<":">>, t)
           \/ EndsWith(t, <<":", "interp_algo=">> \o method)
        /\ \/ Infix(<<":">> \o wh, t)
           \/ Infix(<<"scale_cuda=">> \o wh \o <<":">>, t)

\* The user's CUDA filter f stands rewritten in the chain c: crop= after a
\* hwupload_cuda, scale= as scale_cuda with the method, any other as it is.
RewrittenIn(c, f, method) ==
    IF Head(f) = "crop=" THEN Infix(<<"hwupload_cuda", ",">> \o f, c)
    ELSE IF Head(f) = "scale=" THEN ScaleCudaWith(c, method, Tail(f))
    ELSE f \in ChainFilters(c)

\* A CUDA decoder is active, CUDA filters are given and the chain is built.
CudaChainBuilt == ChainBuilt /\ IsSome(enc.cuda_decoder) /\ enc.cuda_filters # <<>>

\* C21: in the CUDA filter chain every crop= filter follows a
\* hwupload_cuda, every scale=W:H filter is a scale_cuda filter that carries
\* the configured cuda_scaling_method as its interpolation option and W:H as
\* ':'-delimited options, and every other filter is unchanged.
C21_CudaRewrite ==
    CudaChainBuilt =>
        \A i \in 1..Len(enc.cuda_filters) :
            RewrittenIn(cuda_filters, enc.cuda_filters[i], enc.cuda_scaling_method)

\* C21 without its scale= filters: crop= and the other filters alone.
CropAndOthersRewritten ==
    CudaChainBuilt =>
        \A i \in 1..Len(enc.cuda_filters) :
            Head(enc.cuda_filters[i]) # "scale=" =>
                RewrittenIn(cuda_filters, enc.cuda_filters[i], enc.cuda_scaling_method)

\* The same rewriting in the hardware decoder builder: the scale= of its
\* vfilter becomes a scale_cuda whose method is followed by ':' and W:H.
HwScaleRewritten ==
    hpc = "done" /\ hw.vfilter # <<>> /\ Head(hw.vfilter) = "scale=" =>
        Infix(ScalingMethod(hw) \o <<":">> \o Tail(hw.vfilter), hw_vfilter)

\* ------------------------------------------- claim on the derived output arguments

\* The encoder defaults as the claim gives them.
StatedDefaults ==
    IF enc.encoder \in {<<"libaom-av1">>, <<"libvpx-vp9">>}
        THEN << <<Flag("b:v"), <<"0">> >> >>
    ELSE IF enc.encoder \in {<<"av1", "_qsv">>, <<"hevc", "_qsv">>, <<"h264", "_qsv">>}
        THEN << <<Flag("look_ahead"), <<"1">> >>,
                <<Flag("extbrc"), <<"1">> >>,
                <<Flag("look_ahead_depth"), <<"40">> >> >>
    ELSE <<>>

\* The flattened user output arguments, and what follows them in out.
UserOut == TokensOfAll(enc.enc_args)

\* The -svtav1-params pair of out, if it stands right after the user's.
SvtPart(out) ==
    IF Len(out) >= Len(UserOut) + 2 /\ out[Len(UserOut) + 1] = Flag("svtav1-params")
    THEN SubSeq(out, Len(UserOut) + 1, Len(UserOut) + 2)
    ELSE <<>>

\* `-g <keyint>` if a keyint is resolved and sofar holds no -g token.
KeyintPart(sofar) ==
    IF IsSome(keyint) /\ ~Has(sofar, Flag("g")) THEN <<Flag("g"), NumStr(Unwrap(keyint))>>
    ELSE <<>>

\* The default pairs whose flag sofar does not hold, in the table's order.
DefaultsPart(sofar) ==
    Flatten(SelectSeq(StatedDefaults, LAMBDA pair : ~Has(sofar, pair[1])))

\* C22: the output arguments of an Ok result are the flattened user
\* arguments, then -svtav1-params (if any), then `-g <keyint>` exactly when
\* a keyint is resolved and no -g token stands before, then each encoder
\* default pair exactly when its flag does not stand before; a default
\* flag the user gave occurs no more often than the user gave it.
C22_DerivedOutputArgs ==
    Returned =>
        LET out == result.val.output_args
            a == UserOut \o SvtPart(out)
            b == a \o KeyintPart(a)
        IN  /\ out = b \o DefaultsPart(b)
            /\ \A i \in 1..Len(StatedDefaults) :
                   Has(UserOut, StatedDefaults[i][1]) =>
                       Count(out, StatedDefaults[i][1]) = Count(UserOut, StatedDefaults[i][1])

\* C22's case: libaom-av1 with --enc b:v=1 and a default keyint: -g is
\* appended, -b:v stays the user's.
C22_Witness ==
    /\ Returned
    /\ enc.encoder = <<"libaom-av1">>
    /\ HasPair(result.val.output_args, Flag("b:v"), <<"1">>)
    /\ Has(result.val.output_args, Flag("g"))
    /\ ~Has(UserOut, Flag("g"))

\* ------------------------------------------- claim on the input arguments

\* The flattened user input arguments.
UserIn == TokensOfAll(enc.enc_input_args)

\* The hardware input tokens of an active CUDA decoder, as the claim gives
\* them.
StatedCudaTokens ==
    IF enc.cuda_decoder # None
    THEN <<Flag("hwaccel"), <<"cuda">>, Flag("hwaccel_output_format"), <<"cuda">>,
           Flag("extra_hw_frames"), <<ToString(enc.cuda_surfaces)>>,
           Flag("c:v"), enc.cuda_decoder[1]>>
    ELSE <<>>

\* The encoder's default input pairs, by the suffix of its name.
StatedInputDefaults ==
    LET suffix == enc.encoder[Len(enc.encoder)]
        api == IF suffix = "_vaapi" THEN <<"vaapi">>
               ELSE IF suffix = "_vulkan" THEN <<"vulkan">>
               ELSE IF suffix = "_cuvid" THEN <<"cuda">>
               ELSE <<>>
    IN  IF api = <<>> THEN <<>>
        ELSE << <<Flag("hwaccel"), api>>, <<Flag("hwaccel_output_format"), api>> >>

\* C23: the input arguments of an Ok result are the flattened user
\* --enc-input arguments, then the CUDA tokens exactly when a CUDA decoder
\* is active, then each default input pair of the encoder whose flag does
\* not stand before; -hwaccel and -hwaccel_output_format are each added at
\* most once, and with no decoder, no user input argument and no input
\* defaults the input arguments are empty.
C23_InputArgs ==
    Returned =>
        LET out == result.val.input_args
            a == UserIn \o StatedCudaTokens
        IN  /\ out = a \o Flatten(SelectSeq(StatedInputDefaults,
                                            LAMBDA pair : ~Has(a, pair[1])))
            /\ \A f \in {Flag("hwaccel"), Flag("hwaccel_output_format")} :
                   Count(out, f) <= Count(UserIn, f) + 1
            /\ (enc.cuda_decoder = None /\ enc.enc_input_args = <<>>
                    /\ StatedInputDefaults = <<>>) => out = <<>>

\* C23's case: h264_vaapi with a CUDA decoder and --enc-input -re: the
\* user's token, the CUDA tokens, and no vaapi pair after them.
C23_Witness ==
    /\ Returned
    /\ enc.encoder = <<"h264", "_vaapi">>
    /\ enc.cuda_decoder # None
    /\ enc.enc_input_args = << <<"-", "re">> >>
    /\ Len(result.val.input_args) = 9

\* ------------------------------------------- claim on errors and external processes

\* The error kinds of the claim: --svt with another encoder, a reserved
\* flag, the surface count out of range, no frame rate for the keyint.
ConfigErrorKinds == {"SvtEncoder", "Reserved", "Surfaces", "Probe"}

\* C24: a call of to_ffmpeg_args that ends with a configuration conflict,
\* the surface range error or the keyint frame rate error has started no
\* external process (decoder list query, crop detection) before.
C24_ConfigErrorsBeforeExternal ==
    Failed /\ result.err.kind \in ConfigErrorKinds => ext = <<>>

\* ------------------------------------------- claim on minimally_scale

\* minimally_scale is called on the distorted resolution and the user's
\* WxH, and the filter it went into is returned.
MinimallyScaleCalled ==
    LavfiReturned /\ vmaf.vmaf_scale.kind = "Custom" /\ distorted_res # None

\* from_h * target_w > from_w * target_h, on the exact products.
HeightFactorGreater ==
    LET from == Unwrap(distorted_res)
    IN  WideGt(Wide(from[2], vmaf.vmaf_scale.width), Wide(from[1], vmaf.vmaf_scale.height))

\* What minimally_scale is to return, as the filter prints it.
StatedMinimalScale ==
    IF HeightFactorGreater THEN <<"-1", U32Text(vmaf.vmaf_scale.height)>>
    ELSE <<U32Text(vmaf.vmaf_scale.width), "-1">>

\* C25: minimally_scale(from, target) returns (-1, target_h) exactly when
\* from_h * target_w > from_w * target_h and (target_w, -1) otherwise, the
\* equal case included; exactly one of the two is -1.
C25_MinimallyScale ==
    MinimallyScaleCalled =>
        /\ ScaleSteps = {StatedMinimalScale}
        /\ \A wh \in ScaleSteps : (wh[1] = "-1") # (wh[2] = "-1")

\* C25 for targets below 2^31 only.
MinimallyScaleBelowI32Max ==
    MinimallyScaleCalled
        /\ vmaf.vmaf_scale.width.hi < 32768 /\ vmaf.vmaf_scale.height.hi < 32768
        => ScaleSteps = {StatedMinimalScale}

====
